---- MODULE Spec2Model ----
(***************************************************************************)
(* Verification model of the log normalisation and scoring pipeline:       *)
(* risk scorer (ml_scoring.py), format detector (log_detection.py),        *)
(* parser factory and parsers (services/parsers).                          *)
(*                                                                         *)
(* Strings are sequences of one-character strings, so that substring       *)
(* search, lower-casing and counting are computed, not assumed.            *)
(* Python floats are IEEE-754 doubles; a double x in {0} \cup [2^-4, 4)    *)
(* is a multiple of 2^-56 and is represented exactly by the pair           *)
(* [h, e] with  x = h/100 + e/(100 * 2^56),  h the hundredths and e the    *)
(* (small) representation error.                                           *)
(***************************************************************************)
EXTENDS Integers, Sequences, FiniteSets, TLC

VARIABLES
    event,      \* scorer: the event_data dict passed to score_event
    result,     \* scorer: (confidence, risk_label, feature_scores) of the last call
    first,      \* scorer: result of the first call on this event
    calls,      \* scorer: number of score_event calls made so far
    now,        \* wall-clock hour of the process (datetime.now().hour)
    firstNow,   \* scorer: wall-clock hour at the first score_event call
    dFilename,  \* detector: the filename argument
    dFile,      \* detector: the file at file_path
    dPc,        \* detector: position inside detect_log_type
    dResult,    \* detector: the returned tag
    dConsulted, \* detector: content heuristics consulted so far, in order
    dReads,     \* detector: indices of the file lines read so far
    dParser,    \* pipeline: what ParserFactory.get_parser returned for dResult
    _parsers,   \* factory: ParserFactory._parsers
    fLast,      \* factory: the last call and its outcome
    fPrev,      \* factory: _parsers before the last call
    fLog,       \* factory: successful register_parser calls, in order
    fIssued,    \* factory: ids of the instances returned before the last call
    fNext,      \* factory: id of the next object to be constructed
    fCalls,     \* factory: number of calls made so far
    pKind,      \* parser: which parser runs ("syslog", "access", "csv")
    pFile,      \* parser: the file being parsed
    pHasPandas, \* parser: csv_parser.HAS_PANDAS
    pStreaming, \* parser: parse_streaming is the entry point
    pPc,        \* parser: position inside parse
    pIdx,       \* parser: index of the next line (row) of the file
    pEvents,    \* parser: the events list (events yielded so far)
    pSkipped,   \* parser: line numbers whose handling raised
    pDetected,  \* parser: AccessLogParser._detected_pattern (0 = None)
    pTsFormat,  \* parser: _detected_timestamp_format, an index into
                \* TIMESTAMP_PATTERNS (0 = None)
    pRun,       \* parser: parse calls this parser instance has completed
    eRow,       \* database: the EvidenceFile row (is_parsed, parse_error)
    eObj,       \* ingestion: the EvidenceFile object held by the running path
    gPath,      \* ingestion: "task" (Celery) or "sync" (view)
    gPc,        \* ingestion: position inside the parsing routine
    gHasParser, \* ingestion: ParserFactory.get_parser returned a parser
    gFileOk,    \* ingestion: the uploaded file exists at its path
    gIdx,       \* ingestion: index of the next returned event to persist
    gBatch,     \* ingestion: parse_evidence_file_task's parsed_events list
    gOutcome,   \* ingestion: how the routine ended ("none" while running)
    dbParsed,   \* database: the ParsedEvent rows of the evidence file
    sParsed,    \* database: event data of the case's parsed events, by id
    dbScored,   \* database: the ScoredEvent rows, in insertion order
    sTask,      \* scoring: one score_events_task per parsed event
    sBulk,      \* scoring: the score_events_bulk_task of the case
    sSync,      \* scoring: the _score_parsed_events_sync call of the case
    cReq,       \* classifier: (method, path, status, user_agent) of the last call
    cType,      \* classifier: what _determine_event_type returned for cReq
    aRows,      \* database: the ScoredEvent rows of the case (confidence, is_archived)
    aThreshold, \* filter: the threshold of the running or last apply request
    aEvents,    \* filter: the scored_events objects the apply loop iterates
    aIdx,       \* filter: index of the next object of the loop
    aPc,        \* filter: position inside FilterViewSet.apply
    aRun,       \* filter: apply requests completed so far
    aBefore,    \* filter: the rows as they were when the running request began
    uPc,        \* upload: position of the view (perform_create, reparse)
    uMode,      \* upload: the request the view serves ("upload", "reparse")
    uView,      \* upload: the evidence object of perform_create
    uSync,      \* upload: the evidence object of _parse_evidence_sync
    uIdx,       \* upload: index of the next event _parse_evidence_sync creates
    uReparses,  \* upload: reparse requests served so far
    tPc,        \* upload: position of the queued parse_evidence_file_task
    tObj,       \* upload: the evidence object of the task
    tIdx,       \* upload: index of the next event the task constructs
    tBatch,     \* upload: parsed_events of the task
    uEvents,    \* upload: events of _parse_evidence_sync (what parse returned)
    tEvents,    \* upload: events of the task (what parse returned)
    mFile,      \* format detection: the lines of the access log
    mSelf,      \* format detection: the attributes of the parser
    mPc,        \* format detection: position inside parse
    mIdx,       \* format detection: index of the next line of the loop
    mTried      \* format detection: per line handled, the grammar whose match
                \* _parse_line used (0 = none, flexible extraction)

scoreVars == <<event, result, first, calls, now, firstNow>>

detVars == <<dFilename, dFile, dPc, dResult, dConsulted, dReads, dParser>>

facVars == <<_parsers, fLast, fPrev, fLog, fIssued, fNext, fCalls>>

parseVars == <<pKind, pFile, pHasPandas, pStreaming, pPc, pIdx, pEvents,
               pSkipped, pDetected, pTsFormat, pRun>>

ingVars == <<eRow, eObj, gPath, gPc, gHasParser, gFileOk, gIdx, gBatch, gOutcome,
             dbParsed>>

scVars == <<sParsed, dbScored, sTask, sBulk, sSync>>

reqVars == <<cReq, cType>>

fltVars == <<aRows, aThreshold, aEvents, aIdx, aPc, aRun, aBefore>>

upVars == <<uPc, uMode, uView, uSync, uIdx, uReparses, tPc, tObj, tIdx, tBatch,
            uEvents, tEvents>>

fmtVars == <<mFile, mSelf, mPc, mIdx, mTried>>

vars == <<event, result, first, calls, now, firstNow,
          dFilename, dFile, dPc, dResult, dConsulted, dReads, dParser,
          _parsers, fLast, fPrev, fLog, fIssued, fNext, fCalls,
          pKind, pFile, pHasPandas, pStreaming, pPc, pIdx, pEvents,
          pSkipped, pDetected, pTsFormat, pRun,
          eRow, eObj, gPath, gPc, gHasParser, gFileOk, gIdx, gBatch, gOutcome,
          dbParsed, sParsed, dbScored, sTask, sBulk, sSync,
          reqVars, fltVars, upVars, fmtVars>>

(***************************************************************************)
(* Bounds                                                                  *)
(***************************************************************************)
MaxCalls == 2       \* score_event calls per run
MaxWords == 1       \* words joined into one raw_message
MaxFactoryCalls == 3 \* ParserFactory calls per run
MaxLines == 2       \* lines (data rows) of a parsed file

(***************************************************************************)
(* Strings                                                                 *)
(***************************************************************************)
UpperChars == <<"A","B","C","D","E","F","G","H","I","J","K","L","M",
                "N","O","P","Q","R","S","T","U","V","W","X","Y","Z">>
LowerChars == <<"a","b","c","d","e","f","g","h","i","j","k","l","m",
                "n","o","p","q","r","s","t","u","v","w","x","y","z">>

\* one character of str.lower()
lower_char(c) ==
    IF \E i \in 1..Len(UpperChars) : UpperChars[i] = c
    THEN LowerChars[CHOOSE i \in 1..Len(UpperChars) : UpperChars[i] = c]
    ELSE c

\* one character of str.upper()
upper_char(c) ==
    IF \E i \in 1..Len(LowerChars) : LowerChars[i] = c
    THEN UpperChars[CHOOSE i \in 1..Len(LowerChars) : LowerChars[i] = c]
    ELSE c

\* str.lower()
str_lower(s) == [i \in 1..Len(s) |-> lower_char(s[i])]

\* str.upper()
str_upper(s) == [i \in 1..Len(s) |-> upper_char(s[i])]

\* Python `sub in s`
Contains(sub, s) ==
    \E i \in 0..(Len(s) - Len(sub)) :
        \A j \in 1..Len(sub) : s[i + j] = sub[j]

\* ' '.join(words)
RECURSIVE JoinSpace(_)
JoinSpace(ws) ==
    IF Len(ws) = 0 THEN <<>>
    ELSE IF Len(ws) = 1 THEN ws[1]
    ELSE ws[1] \o <<" ">> \o JoinSpace(Tail(ws))

(***************************************************************************)
(* IEEE-754 double arithmetic on the pair representation                   *)
(***************************************************************************)
\* 2^56 mod 6400
M56 == 1536

F(h, e) == [h |-> h, e |-> e]

\* x >= c2/200 for the exact value x = h/100 + e/(100*2^56)
FGeHalf(h, e, c2) == 2 * h > c2 \/ (2 * h = c2 /\ e >= 0)

\* unit in the last place of the binade of x, in multiples of 2^-56
FUlp(h, e) ==
    IF FGeHalf(h, e, 400) THEN 32
    ELSE IF FGeHalf(h, e, 200) THEN 16
    ELSE IF FGeHalf(h, e, 100) THEN 8
    ELSE IF FGeHalf(h, e, 50) THEN 4
    ELSE IF FGeHalf(h, e, 25) THEN 2
    ELSE 1

\* round-to-nearest, ties-to-even, of the exact value (h, e)
FRound(h, e) ==
    IF h = 0 /\ e = 0 THEN F(0, 0)
    ELSE
      LET u    == FUlp(h, e)
          t    == (h * M56 + e) % (100 * u)
          q    == (((h * M56 + e) % (200 * u)) - t) \div (100 * u)
          down == F(h, e - t)
          up   == F(h, e + 100 * u - t)
      IN  IF 2 * t < 100 * u THEN down
          ELSE IF 2 * t > 100 * u THEN up
          ELSE IF q % 2 = 0 THEN down ELSE up

\* the double denoted by the decimal literal h/100
FLit(h) == FRound(h, 0)

\* a + b
FAdd(a, b) == FRound(a.h + b.h, a.e + b.e)

\* a <= b, a < b, a >= b
FLe(a, b) == a.h < b.h \/ (a.h = b.h /\ a.e <= b.e)
FLt(a, b) == a.h < b.h \/ (a.h = b.h /\ a.e < b.e)
FGe(a, b) == FLe(b, a)

\* min(a, b), max(a, b) as Python evaluates them (first argument on ties)
FMin(a, b) == IF FLt(b, a) THEN b ELSE a
FMax(a, b) == IF FLt(a, b) THEN b ELSE a

\* a * 0.8 : exact product in tenths of the error unit, then rounded.
\* 0.8 is the double (80, 320); a.h is a multiple of 5 for every table score.
FMul08(a) ==
    LET hp   == (8 * a.h) \div 10
        e10  == 32 * a.h + 8 * a.e
        tiny == IF a.e > 0 THEN 1 ELSE IF a.e < 0 THEN -1 ELSE 0
        ge(c2) == 2 * hp > c2
                  \/ (2 * hp = c2 /\ (e10 > 0 \/ (e10 = 0 /\ tiny >= 0)))
        u    == IF ge(400) THEN 32 ELSE IF ge(200) THEN 16
                ELSE IF ge(100) THEN 8 ELSE IF ge(50) THEN 4
                ELSE IF ge(25) THEN 2 ELSE 1
        t    == (10 * hp * M56 + e10) % (1000 * u)
        q    == (((10 * hp * M56 + e10) % (2000 * u)) - t) \div (1000 * u)
        down == F(hp, (e10 - t) \div 10)
        up   == F(hp, (e10 - t + 1000 * u) \div 10)
    IN  IF 2 * t < 1000 * u \/ (2 * t = 1000 * u /\ tiny < 0) THEN down
        ELSE IF 2 * t > 1000 * u \/ tiny > 0 THEN up
        ELSE IF q % 2 = 0 THEN down ELSE up

(***************************************************************************)
(* MLScorer                                                                *)
(***************************************************************************)
RISK_KEYWORDS ==
  << [key |-> <<"p","o","w","e","r","s","h","e","l","l">>, score |-> 40],
     [key |-> <<"c","m","d",".","e","x","e">>, score |-> 30],
     [key |-> <<"m","i","m","i","k","a","t","z">>, score |-> 90],
     [key |-> <<"c","r","e","d","e","n","t","i","a","l">>, score |-> 50],
     [key |-> <<"p","a","s","s","w","o","r","d">>, score |-> 40],
     [key |-> <<"a","d","m","i","n">>, score |-> 30],
     [key |-> <<"r","o","o","t">>, score |-> 30],
     [key |-> <<"s","u","d","o">>, score |-> 30],
     [key |-> <<"e","x","e","c">>, score |-> 30],
     [key |-> <<"r","e","m","o","t","e">>, score |-> 30],
     [key |-> <<"r","d","p">>, score |-> 40],
     [key |-> <<"s","s","h">>, score |-> 30],
     [key |-> <<"l","o","g","i","n">>, score |-> 20],
     [key |-> <<"f","a","i","l","e","d">>, score |-> 20],
     [key |-> <<"d","e","n","i","e","d">>, score |-> 20],
     [key |-> <<"t","r","a","n","s","f","e","r">>, score |-> 30],
     [key |-> <<"d","o","w","n","l","o","a","d">>, score |-> 20],
     [key |-> <<"u","p","l","o","a","d">>, score |-> 30],
     [key |-> <<"e","x","p","l","o","i","t">>, score |-> 80],
     [key |-> <<"p","a","y","l","o","a","d">>, score |-> 70],
     [key |-> <<"s","h","e","l","l">>, score |-> 40],
     [key |-> <<"b","a","c","k","d","o","o","r">>, score |-> 90],
     [key |-> <<"t","r","o","j","a","n">>, score |-> 90],
     [key |-> <<"m","a","l","w","a","r","e">>, score |-> 90] >>

EVENT_TYPE_SCORES ==
  << [key |-> <<"p","o","w","e","r","s","h","e","l","l","_","e","x","e","c">>, score |-> 40],
     [key |-> <<"r","e","m","o","t","e","_","l","o","g","i","n">>, score |-> 30],
     [key |-> <<"a","d","m","i","n","_","l","o","g","i","n">>, score |-> 40],
     [key |-> <<"f","i","l","e","_","t","r","a","n","s","f","e","r">>, score |-> 30],
     [key |-> <<"s","e","r","v","i","c","e","_","s","t","a","r","t">>, score |-> 10],
     [key |-> <<"p","r","o","c","e","s","s","_","c","r","e","a","t","i","o","n">>, score |-> 20],
     [key |-> <<"n","e","t","w","o","r","k","_","c","o","n","n","e","c","t","i","o","n">>, score |-> 20] >>

high_priv_users ==
  << <<"a","d","m","i","n">>,
     <<"a","d","m","i","n","i","s","t","r","a","t","o","r">>,
     <<"r","o","o","t">>,
     <<"s","y","s","t","e","m">>,
     <<"n","t"," ","a","u","t","h","o","r","i","t","y">> >>

\* index of the first table entry whose key occurs in s, 0 if none
FirstKeyIn(table, s) ==
    LET hit == {i \in 1..Len(table) : Contains(table[i].key, s)}
    IN  IF hit = {} THEN 0
        ELSE CHOOSE i \in hit : \A j \in hit : i <= j

_score_event_type(event_type) ==
    LET event_type_lower == str_lower(event_type)
        i == FirstKeyIn(EVENT_TYPE_SCORES, event_type_lower)
        k == FirstKeyIn(RISK_KEYWORDS, event_type_lower)
    IN  IF i # 0 THEN FLit(EVENT_TYPE_SCORES[i].score)
        ELSE IF k # 0 THEN FMul08(FLit(RISK_KEYWORDS[k].score))
        ELSE FLit(10)

\* the loop of _score_keywords over RISK_KEYWORDS[i..]
RECURSIVE KeywordLoop(_, _, _)
KeywordLoop(message_lower, i, max_score) ==
    IF i > Len(RISK_KEYWORDS) THEN max_score
    ELSE KeywordLoop(message_lower, i + 1,
            IF Contains(RISK_KEYWORDS[i].key, message_lower)
            THEN FMax(max_score, FLit(RISK_KEYWORDS[i].score))
            ELSE max_score)

_score_keywords(message) == KeywordLoop(str_lower(message), 1, FLit(0))

_score_user(user) ==
    LET user_lower == str_lower(user)
    IN  IF \E i \in 1..Len(high_priv_users) : Contains(high_priv_users[i], user_lower)
        THEN FLit(30)
        ELSE FLit(0)

\* a timestamp value: None, a str, or a datetime with its hour
TsNone == [kind |-> "none"]
TsStr(s) == [kind |-> "str", val |-> s]
TsDatetime(hr) == [kind |-> "datetime", hour |-> hr]

\* Python truthiness of a timestamp value (`not timestamp`)
TsFalsy(ts) == ts.kind = "none" \/ (ts.kind = "str" /\ Len(ts.val) = 0)

\* variant: off-hours decided by the wall clock instead of the event timestamp
_score_temporal_wallclock(timestamp) ==
    IF TsFalsy(timestamp) THEN FLit(0)
    ELSE IF timestamp.kind = "datetime" /\ (now >= 22 \/ now < 6)
         THEN FLit(10)
         ELSE FLit(0)

_score_temporal(timestamp) ==
    IF TsFalsy(timestamp) THEN FLit(0)
    ELSE IF timestamp.kind = "datetime"
              /\ (timestamp.hour >= 22 \/ timestamp.hour < 6)
         THEN FLit(10)
         ELSE FLit(0)

\* variant: exclusive lower bounds
_assign_risk_label_exclusive(confidence) ==
    IF FLt(FLit(80), confidence) THEN "CRITICAL"
    ELSE IF FLt(FLit(60), confidence) THEN "HIGH"
    ELSE IF FLt(FLit(30), confidence) THEN "MEDIUM"
    ELSE "LOW"

_assign_risk_label(confidence) ==
    IF FGe(confidence, FLit(80)) THEN "CRITICAL"
    ELSE IF FGe(confidence, FLit(60)) THEN "HIGH"
    ELSE IF FGe(confidence, FLit(30)) THEN "MEDIUM"
    ELSE "LOW"

\* variant: the total is returned unclamped
clamp_missing(total_score) == total_score

\* min(total_score, 1.0)
clamp(total_score) == FMin(total_score, FLit(100))

\* variant: the user score is reported but not added to the total
score_event_user_not_added(event_data) ==
    LET event_type_score == _score_event_type(event_data.event_type)
        t1 == FAdd(FLit(0), event_type_score)
        keyword_score == _score_keywords(event_data.raw_message)
        t2 == FAdd(t1, keyword_score)
        user_score == _score_user(event_data.user)
        time_score == _score_temporal(event_data.timestamp)
        total_score == FAdd(t2, time_score)
        confidence == clamp(total_score)
    IN  [confidence |-> confidence,
         risk_label |-> _assign_risk_label(confidence),
         feature_scores |-> [event_type |-> event_type_score,
                             keywords |-> keyword_score,
                             user |-> user_score,
                             temporal |-> time_score]]

score_event(event_data) ==
    LET event_type_score == _score_event_type(event_data.event_type)
        t1 == FAdd(FLit(0), event_type_score)
        keyword_score == _score_keywords(event_data.raw_message)
        t2 == FAdd(t1, keyword_score)
        user_score == _score_user(event_data.user)
        t3 == FAdd(t2, user_score)
        time_score == _score_temporal(event_data.timestamp)
        total_score == FAdd(t3, time_score)
        confidence == clamp(total_score)
    IN  [confidence |-> confidence,
         risk_label |-> _assign_risk_label(confidence),
         feature_scores |-> [event_type |-> event_type_score,
                             keywords |-> keyword_score,
                             user |-> user_score,
                             temporal |-> time_score]]

(***************************************************************************)
(* Scorer inputs                                                           *)
(***************************************************************************)
EventTypeSamples ==
    { <<>>,
      <<"p","o","w","e","r","s","h","e","l","l","_","e","x","e","c">>,
      <<"R","e","m","o","t","e","_","L","o","g","i","n">>,
      <<"a","d","m","i","n","_","l","o","g","i","n">>,
      <<"m","i","m","i","k","a","t","z">>,
      <<"l","o","g","i","n"," ","f","a","i","l","e","d">>,
      <<"e","x","p","l","o","i","t">>,
      <<"G","E","T">> }

RawWords ==
    { <<>>,
      <<"r","d","p">>,
      <<"F","a","i","l","e","d">>,
      <<"m","i","m","i","k","a","t","z">>,
      <<"a","d","m","i","n">>,
      <<"o","k">> }

UserSamples ==
    { <<>>,
      <<"a","d","m","i","n">>,
      <<"N","T"," ","A","U","T","H","O","R","I","T","Y">>,
      <<"b","o","b">> }

HourSamples == {5, 6, 21, 22}

TimestampSamples ==
    {TsNone, TsStr(<<>>), TsStr(<<"1","0",":","0","0">>)}
        \cup {TsDatetime(hr) : hr \in HourSamples}

\* word sequences of length 0..n over a set of words
RECURSIVE WordSeqs(_, _)
WordSeqs(W, n) ==
    IF n = 0 THEN {<<>>}
    ELSE LET shorter == WordSeqs(W, n - 1)
         IN  shorter \cup {Append(ws, w) : ws \in shorter, w \in W}

RawMessages == {JoinSpace(ws) : ws \in WordSeqs(RawWords, MaxWords)}

Events ==
    [event_type : EventTypeSamples, raw_message : RawMessages,
     user : UserSamples, timestamp : TimestampSamples]

NoResult == [confidence |-> F(0, 0), risk_label |-> "NONE",
             feature_scores |-> << >>]

ClockHours == {3, 14}

(***************************************************************************)
(* Format detector (log_detection.py)                                      *)
(***************************************************************************)
T_CSV        == <<"C","S","V">>
T_EVTX       == <<"E","V","T","X">>
T_JSON       == <<"J","S","O","N">>
T_SYSLOG     == <<"S","Y","S","L","O","G">>
T_ACCESS_LOG == <<"A","C","C","E","S","S","_","L","O","G">>
T_UNKNOWN    == <<"U","N","K","N","O","W","N">>

\* s[a..b], empty when a > b
Slice(s, a, b) == [i \in 1..(b - a + 1) |-> s[a + i - 1]]

\* index of the last occurrence of character c in s, 0 if none
LastIndexOf(s, c) ==
    LET at == {i \in 1..Len(s) : s[i] = c}
    IN  IF at = {} THEN 0 ELSE CHOOSE i \in at : \A j \in at : j <= i

\* os.path.splitext(p)[1]: the text from the last dot of the last path
\* component, unless only dots precede it in that component
splitext_ext(p) ==
    LET sepIndex == LastIndexOf(p, "/")
        dotIndex == LastIndexOf(p, ".")
    IN  IF dotIndex > sepIndex
           /\ \E k \in (sepIndex + 1)..(dotIndex - 1) : p[k] # "."
        THEN Slice(p, dotIndex, Len(p))
        ELSE <<>>

\* value returned by a helper, or an exception leaving it
Ret(v) == [raised |-> FALSE, value |-> v]
Raised == [raised |-> TRUE, value |-> FALSE]

\* f.readline() on a freshly opened file: the first line, '' at end of file
readline(file) == IF Len(file.lines) = 0 THEN <<>> ELSE file.lines[1]

\* first_line.count(c)
Count(s, c) == Cardinality({i \in 1..Len(s) : s[i] = c})

\* variant: the open() failure is not caught
_is_csv_format_unguarded(file) ==
    IF ~file.readable THEN Raised
    ELSE LET first_line == readline(file)
         IN  Ret(Contains(<<",">>, first_line) /\ Count(first_line, ",") >= 2)

_is_csv_format(file) ==
    IF ~file.readable THEN Ret(FALSE)
    ELSE LET first_line == readline(file)
         IN  Ret(Contains(<<",">>, first_line) /\ Count(first_line, ",") >= 2)

syslog_indicators ==
    << <<"<">>, <<">">>, <<"k","e","r","n","e","l",":">>,
       <<"s","y","s","l","o","g">>, <<"d","a","e","m","o","n">> >>

_is_syslog_format(file) ==
    IF ~file.readable THEN Ret(FALSE)
    ELSE LET first_line == readline(file)
         IN  Ret(\E i \in 1..Len(syslog_indicators) :
                    Contains(syslog_indicators[i], str_lower(first_line)))

IsDigit(c) == c \in {"0","1","2","3","4","5","6","7","8","9"}
IsSpace(c) == c \in {" ", "\t", "\n", "\r"}

\* length of the run of digits of s that starts at position i
DigitRun(s, i) ==
    LET stop == {k \in i..(Len(s) + 1) : k > Len(s) \/ ~IsDigit(s[k])}
    IN  (CHOOSE k \in stop : \A j \in stop : k <= j) - i

\* position after \d{1,3} at i followed by character c, 0 if no match
OctetThen(s, i, c) ==
    IF i = 0 THEN 0
    ELSE LET n == DigitRun(s, i)
         IN  IF n >= 1 /\ n <= 3 /\ i + n <= Len(s) /\ s[i + n] = c
             THEN i + n + 1 ELSE 0

HTTP_METHODS ==
    { <<"G","E","T">>, <<"P","O","S","T">>, <<"P","U","T">>,
      <<"D","E","L","E","T","E">>, <<"H","E","A","D">>,
      <<"O","P","T","I","O","N","S">>, <<"P","A","T","C","H">> }

\* s has the prefix pre at position i
HasPrefixAt(s, i, pre) ==
    i + Len(pre) - 1 <= Len(s) /\ \A j \in 1..Len(pre) : s[i + j - 1] = pre[j]

\* access_pattern.match(s) for
\* ^\d{1,3}\.\d{1,3}\.\d{1,3}\.\d{1,3}\s+.*\[.*\]\s+"(GET|POST|...)
access_pattern_match(s) ==
    LET p1 == OctetThen(s, 1, ".")
        p2 == OctetThen(s, p1, ".")
        p3 == OctetThen(s, p2, ".")
        n4 == IF p3 = 0 THEN 0 ELSE DigitRun(s, p3)
        p4 == p3 + n4
    IN  /\ p3 # 0 /\ n4 >= 1 /\ n4 <= 3
        /\ p4 <= Len(s) /\ IsSpace(s[p4])
        /\ \E i \in (p4 + 1)..Len(s) : \E j \in (i + 1)..Len(s) :
             \E k \in (j + 2)..Len(s) :
                /\ s[i] = "[" /\ s[j] = "]"
                /\ \A w \in (j + 1)..(k - 1) : IsSpace(s[w])
                /\ s[k] = "\""
                /\ \E m \in HTTP_METHODS : HasPrefixAt(s, k + 1, m)

_is_access_log_format(file) ==
    IF ~file.readable THEN Ret(FALSE)
    ELSE Ret(access_pattern_match(readline(file)))

\* variant: syslog is tested before access log for .log/.txt
LogTxtOrder_syslog_first == <<"syslog", "access">>

\* the content heuristics tried for .log/.txt, in the order of the code
LogTxtOrder == <<"access", "syslog">>

\* the helper behind a heuristic name, and the tag it stands for
Heuristic(name, file) ==
    IF name = "access" THEN _is_access_log_format(file)
    ELSE IF name = "syslog" THEN _is_syslog_format(file)
    ELSE _is_csv_format(file)

HeuristicTag(name) ==
    IF name = "access" THEN T_ACCESS_LOG
    ELSE IF name = "syslog" THEN T_SYSLOG
    ELSE T_CSV

\* lines a helper reads: the first one when the file opens and has one
HelperReads(file) ==
    IF file.readable /\ Len(file.lines) > 0 THEN <<1>> ELSE <<>>

\* extension = os.path.splitext(filename)[1].lower()
extension(filename) == str_lower(splitext_ext(filename))

(***************************************************************************)
(* Parser factory (parsers/factory.py)                                     *)
(***************************************************************************)
\* classes a caller may pass; the three parsers inherit from BaseParser
ParserClasses == {"CSVParser", "SyslogParser", "AccessLogParser"}
OtherClasses == {"dict"}

\* issubclass(parser_class, BaseParser)
issubclass_BaseParser(c) == c \in ParserClasses

\* the class attribute ParserFactory._parsers as first loaded
InitialParsers ==
    [t \in {T_CSV, T_SYSLOG} |->
        IF t = T_CSV THEN "CSVParser" ELSE "SyslogParser"]

NoneParser == [cls |-> "None", id |-> 0]

\* ParserFactory.get_parser: a new object of the class, or None
get_parser(reg, log_type, id) ==
    LET key == str_upper(log_type)
    IN  IF key \in DOMAIN reg THEN [cls |-> reg[key], id |-> id]
        ELSE NoneParser

\* dict item assignment reg[key] = c
DictSet(reg, key, c) ==
    [t \in DOMAIN reg \cup {key} |-> IF t = key THEN c ELSE reg[t]]

\* variant: the tag is stored as given, not upper-cased
register_parser_as_given(reg, log_type, parser_class) ==
    IF ~issubclass_BaseParser(parser_class)
    THEN [raised |-> "ValueError", reg |-> reg]
    ELSE [raised |-> "", reg |-> DictSet(reg, log_type, parser_class)]

\* ParserFactory.register_parser: the exception raised ("" if none) and
\* the registry afterwards
register_parser(reg, log_type, parser_class) ==
    IF ~issubclass_BaseParser(parser_class)
    THEN [raised |-> "ValueError", reg |-> reg]
    ELSE [raised |-> "", reg |-> DictSet(reg, str_upper(log_type), parser_class)]

(***************************************************************************)
(* Parsers (parsers/base.py, syslog_parser.py, access_log_parser.py,       *)
(* csv_parser.py)                                                          *)
(***************************************************************************)
\* Python None where a string is expected
PyNone == <<"<None>">>

\* `not value` for a string or None
Falsy(v) == v = <<>> \/ v = PyNone

Min(S) == CHOOSE x \in S : \A y \in S : x <= y

required_fields ==
    <<"timestamp", "event_type", "raw_message", "line_number">>

\* BaseParser.validate_event: every required key is present in the dict
validate_event(ev) ==
    \A i \in 1..Len(required_fields) : required_fields[i] \in DOMAIN ev

\* datetime.utcnow() / django.utils.timezone.now(): the hour of the clock
utcnow == TsDatetime(now)

\* variant: a timestamp strptime rejects is left as None
_parse_syslog_timestamp_none(m) ==
    IF m.strptime THEN TsDatetime(m.hour) ELSE TsNone

\* SyslogParser._parse_syslog_timestamp on the timestamp group: the
\* strptime result, the current time when strptime raises
_parse_syslog_timestamp(m) ==
    IF m.strptime THEN TsDatetime(m.hour) ELSE utcnow

\* SyslogParser._parse_syslog_line; line.m holds the groups of
\* SYSLOG_PATTERN.match(line), line.m.matched is FALSE when there is no match
_parse_syslog_line(line, line_num) ==
    IF line.m.matched
    THEN Ret([timestamp   |-> _parse_syslog_timestamp(line.m),
              user        |-> <<>>,
              host        |-> line.m.host,
              event_type  |-> line.m.process,
              raw_message |-> line.m.message,
              line_number |-> line_num])
    ELSE Ret([timestamp   |-> utcnow,
              user        |-> <<>>,
              host        |-> <<>>,
              event_type  |-> <<"S","Y","S","L","O","G">>,
              raw_message |-> line.text,
              line_number |-> line_num])

\* value.split()[0]: the first whitespace-separated token, <<>> if none
FirstToken(s) ==
    LET at == {i \in 1..Len(s) : ~IsSpace(s[i])}
    IN  IF at = {} THEN <<>>
        ELSE LET a    == Min(at)
                 stop == {k \in a..(Len(s) + 1) : k > Len(s) \/ IsSpace(s[k])}
             IN  Slice(s, a, Min(stop) - 1)

\* ' | '.join(parts)
RECURSIVE JoinBar(_)
JoinBar(parts) ==
    IF Len(parts) = 0 THEN <<>>
    ELSE IF Len(parts) = 1 THEN parts[1]
    ELSE parts[1] \o <<" ", "|", " ">> \o JoinBar(Tail(parts))

\* number of grammars in AccessLogParser.PATTERNS
NumPatterns == 5

\* AccessLogParser.TIMESTAMP_PATTERNS
TIMESTAMP_PATTERNS ==
    << <<"%","d","/","%","b","/","%","Y",":","%","H",":","%","M",":","%","S"," ","%","z">>,
       <<"%","d","/","%","b","/","%","Y",":","%","H",":","%","M",":","%","S">>,
       <<"%","Y","-","%","m","-","%","d","T","%","H",":","%","M",":","%","S",".","%","f","Z">>,
       <<"%","Y","-","%","m","-","%","d","T","%","H",":","%","M",":","%","S","Z">>,
       <<"%","Y","-","%","m","-","%","d"," ","%","H",":","%","M",":","%","S">>,
       <<"%","b"," ","%","d"," ","%","H",":","%","M",":","%","S">>,
       <<"%","d","-","%","b","-","%","Y"," ","%","H",":","%","M",":","%","S">>,
       <<"%","Y","/","%","m","/","%","d"," ","%","H",":","%","M",":","%","S">> >>

\* datetime.strptime on the strings the sample lines hand to it: the rows
\* <<text, format, hour, minute>> of the calls that succeed
StrptimeTable ==
    { <<<<"1","2","/","J","a","n","/","2","0","2","6",":","1","0",":","0","0",":","0","0">>,
        <<"%","d","/","%","b","/","%","Y",":","%","H",":","%","M",":","%","S">>, 10, 0>> }

\* fmt.replace(' %z', '')
RECURSIVE strip_z(_)
strip_z(fmt) ==
    IF Len(fmt) < 3 THEN fmt
    ELSE IF HasPrefixAt(fmt, 1, <<" ", "%", "z">>)
    THEN strip_z(Slice(fmt, 4, Len(fmt)))
    ELSE <<fmt[1]>> \o strip_z(Tail(fmt))

\* datetime.strptime(text, fmt): the naive datetime, or ValueError
strptime(text, fmt) ==
    LET rows == {r \in StrptimeTable : r[1] = text /\ r[2] = fmt}
    IN  IF rows = {} THEN Raised
        ELSE LET r == CHOOSE r \in rows : TRUE
             IN  Ret([hour |-> r[3], minute |-> r[4]])

\* s.rsplit(' ', 1)[0]
rsplit1(s) ==
    LET k == LastIndexOf(s, " ")
    IN  IF k = 0 THEN s ELSE Slice(s, 1, k - 1)

\* date_parser.parse(text): raises for a string without a date token; none
\* of the sample strings that reach it has one
dateutil_parse(text) == Raised

\* the attributes __init__ gives a parser (lines 91-92)
FreshSelf == [_detected_pattern |-> 0, _detected_timestamp_format |-> 0]

\* readline calls _detect_format makes (range(10), line 174)
SampleReads == 10

\* the lines _detect_format samples: those of the first ten lines that do
\* not start with '#', stripped (a blank line is read as '\n' and kept)
sample_lines(lines) ==
    SelectSeq(SubSeq(lines, 1, Min({SampleReads, Len(lines)})),
              LAMBDA l : ~(Len(l.text) > 0 /\ l.text[1] = "#"))

\* the grammar _detect_format settles on: the first one matching at least
\* half of the sample lines, 0 if none
detected_pattern(lines) ==
    LET s  == sample_lines(lines)
        ok == {p \in 1..NumPatterns :
                 2 * Cardinality({i \in 1..Len(s) : p \in s[i].grammars})
                    >= Len(s)}
    IN  IF Len(s) = 0 \/ ok = {} THEN 0 ELSE Min(ok)

\* lines 195-203 on the timestamp group ts: the first format strptime
\* accepts (0 if none); IndexError when ts holds a blank and no token
\* (ts_str.split()[0], line 198, only ValueError is caught)
detect_timestamp_format(ts) ==
    LET clean(k) == IF Contains(<<" ">>, ts)
                       /\ ~Contains(<<"+">>, TIMESTAMP_PATTERNS[k])
                    THEN FirstToken(ts) ELSE ts
        ok == {k \in 1..Len(TIMESTAMP_PATTERNS) :
                 ~strptime(clean(k), strip_z(TIMESTAMP_PATTERNS[k])).raised}
    IN  IF Contains(<<" ">>, ts) /\ ~Contains(<<"+">>, TIMESTAMP_PATTERNS[1])
           /\ FirstToken(ts) = <<>>
        THEN Raised
        ELSE Ret(IF ok = {} THEN 0 ELSE Min(ok))

\* AccessLogParser._detect_format: sets self._detected_pattern when a
\* grammar reaches half of the sample lines and
\* self._detected_timestamp_format when the timestamp group of the first
\* sample line that grammar matches parses; what it does not set keeps the
\* value the instance had. Raises IndexError on a whitespace-only timestamp
\* group (value is then the attributes at that point).
_detect_format(self, lines) ==
    LET s  == sample_lines(lines)
        d  == detected_pattern(lines)
        p  == IF d # 0 THEN d ELSE self._detected_pattern
        at == {i \in 1..Len(s) : p \in s[i].grammars /\ s[i].gts # <<>>}
    IN  IF Len(s) = 0 THEN Ret(self)
        ELSE IF p = 0 \/ at = {}
        THEN Ret([self EXCEPT !._detected_pattern = p])
        ELSE LET f == detect_timestamp_format(s[Min(at)].gts)
             IN  IF f.raised
                 THEN [raised |-> TRUE,
                       value  |-> [self EXCEPT !._detected_pattern = p]]
                 ELSE Ret([_detected_pattern |-> p,
                           _detected_timestamp_format |->
                               IF f.value # 0 THEN f.value
                               ELSE self._detected_timestamp_format])

\* AccessLogParser._build_event_from_match: line 277 reads the local name
\* `protocol`, which is never assigned, so every call ends in NameError
_build_event_from_match(line, line_num) == Raised

\* the UTC hour of the instant a timestamp text denotes: its wall-clock
\* time less the offset it ends with (' +hhmm' or ' -hhmm'), the wall-clock
\* time itself without one
utc_instant(timestamp_str) ==
    LET tz    == Contains(<<" ", "+">>, timestamp_str)
                 \/ Contains(<<" ", "-">>, timestamp_str)
        clean == IF tz THEN rsplit1(timestamp_str) ELSE timestamp_str
        off   == Slice(timestamp_str, Len(clean) + 2, Len(timestamp_str))
        sign  == IF Len(off) > 0 /\ off[1] = "-" THEN -1 ELSE 1
        dig(c) == CHOOSE n \in 0..9 :
                     <<"0","1","2","3","4","5","6","7","8","9">>[n + 1] = c
        mins  == IF tz /\ Len(off) = 5
                 THEN sign * ((10 * dig(off[2]) + dig(off[3])) * 60
                              + 10 * dig(off[4]) + dig(off[5]))
                 ELSE 0
        ok    == {k \in 1..Len(TIMESTAMP_PATTERNS) :
                    ~strptime(clean, strip_z(TIMESTAMP_PATTERNS[k])).raised}
    IN  IF timestamp_str = <<>> \/ ok = {} THEN utcnow
        ELSE LET dt == strptime(clean,
                                strip_z(TIMESTAMP_PATTERNS[Min(ok)])).value
             IN  TsDatetime(((dt.hour * 60 + dt.minute - mins) % 1440)
                            \div 60)

\* AccessLogParser._parse_timestamp: the detected format first (the text
\* cut at its first blank), then every format (the text cut at its last
\* blank when it holds ' +' or ' -'), then dateutil, then the current
\* time; the parsed wall-clock time is labelled UTC as it stands.
\* IndexError when the detected format meets a text of blanks only.
_parse_timestamp(self, timestamp_str) ==
    IF timestamp_str = <<>> THEN Ret(utcnow)
    ELSE
    LET f     == self._detected_timestamp_format
        split == /\ f # 0
                 /\ Contains(<<" ">>, timestamp_str)
                 /\ ~Contains(<<"+">>, TIMESTAMP_PATTERNS[f])
        det   == IF f = 0 THEN Raised
                 ELSE strptime(IF split THEN FirstToken(timestamp_str)
                               ELSE timestamp_str,
                               strip_z(TIMESTAMP_PATTERNS[f]))
        clean == IF Contains(<<" ", "+">>, timestamp_str)
                    \/ Contains(<<" ", "-">>, timestamp_str)
                 THEN rsplit1(timestamp_str) ELSE timestamp_str
        ok    == {k \in 1..Len(TIMESTAMP_PATTERNS) :
                    ~strptime(clean, strip_z(TIMESTAMP_PATTERNS[k])).raised}
        du    == dateutil_parse(timestamp_str)
    IN  IF split /\ FirstToken(timestamp_str) = <<>> THEN Raised
        ELSE IF ~det.raised THEN Ret(TsDatetime(det.value.hour))
        ELSE IF ok # {}
        THEN Ret(TsDatetime(strptime(clean,
                     strip_z(TIMESTAMP_PATTERNS[Min(ok)])).value.hour))
        ELSE IF ~du.raised THEN Ret(TsDatetime(du.value.hour))
        ELSE Ret(utcnow)

\* re.search of the literals lits[1] \s{n,} lits[2] \s{m,} ... at position i
\* of s, gaps[k] the least number of whitespace characters after lits[k];
\* the position after the match, 0 if there is none
RECURSIVE MatchLitsAt(_, _, _, _)
MatchLitsAt(s, i, lits, gaps) ==
    IF Len(lits) = 0 THEN i
    ELSE IF ~HasPrefixAt(s, i, lits[1]) THEN 0
    ELSE IF Len(lits) = 1 THEN i + Len(lits[1])
    ELSE LET a    == i + Len(lits[1])
             stop == {k \in a..(Len(s) + 1) : k > Len(s) \/ ~IsSpace(s[k])}
             b    == Min(stop)
         IN  IF b - a < gaps[1] THEN 0
             ELSE MatchLitsAt(s, b, Tail(lits), Tail(gaps))

\* pattern.search(s) with re.IGNORECASE for such a pattern
SearchCI(lits, gaps, s) ==
    \E i \in 1..Len(s) : MatchLitsAt(str_lower(s), i, lits, gaps) # 0

\* AccessLogParser._attack_patterns_compiled, in list order
_attack_patterns_compiled ==
    << [lits |-> <<<<".",".","/">>>>, gaps |-> <<>>,
        label |-> <<"P","A","T","H","_","T","R","A","V","E","R","S","A","L","_","A","T","T","E","M","P","T">>],
       [lits |-> <<<<"e","t","c","/","p","a","s","s","w","d">>>>, gaps |-> <<>>,
        label |-> <<"P","A","T","H","_","T","R","A","V","E","R","S","A","L","_","A","T","T","E","M","P","T">>],
       [lits |-> <<<<"'">>>>, gaps |-> <<>>,
        label |-> <<"S","Q","L","_","I","N","J","E","C","T","I","O","N","_","A","T","T","E","M","P","T">>],
       [lits |-> <<<<"o","r">>, <<"'","1","'">>, <<"=">>, <<"'","1">>>>, gaps |-> <<1, 0, 0>>,
        label |-> <<"S","Q","L","_","I","N","J","E","C","T","I","O","N","_","A","T","T","E","M","P","T">>],
       [lits |-> <<<<"u","n","i","o","n">>, <<"s","e","l","e","c","t">>>>, gaps |-> <<1>>,
        label |-> <<"S","Q","L","_","I","N","J","E","C","T","I","O","N","_","A","T","T","E","M","P","T">>],
       [lits |-> <<<<"-","-">>>>, gaps |-> <<>>,
        label |-> <<"S","Q","L","_","I","N","J","E","C","T","I","O","N","_","A","T","T","E","M","P","T">>],
       [lits |-> <<<<"<","s","c","r","i","p","t">>>>, gaps |-> <<>>,
        label |-> <<"X","S","S","_","A","T","T","E","M","P","T">>],
       [lits |-> <<<<"j","a","v","a","s","c","r","i","p","t",":">>>>, gaps |-> <<>>,
        label |-> <<"X","S","S","_","A","T","T","E","M","P","T">>],
       [lits |-> <<<<"c","m","d","=">>>>, gaps |-> <<>>,
        label |-> <<"C","O","M","M","A","N","D","_","I","N","J","E","C","T","I","O","N","_","A","T","T","E","M","P","T">>],
       [lits |-> <<<<"e","x","e","c","(">>>>, gaps |-> <<>>,
        label |-> <<"C","O","M","M","A","N","D","_","I","N","J","E","C","T","I","O","N","_","A","T","T","E","M","P","T">>],
       [lits |-> <<<<".","p","h","p","?">>>>, gaps |-> <<>>,
        label |-> <<"P","H","P","_","I","N","J","E","C","T","I","O","N","_","A","T","T","E","M","P","T">>] >>

\* (sqlmap|nikto|nmap|masscan|burp|zap|acunetix|nessus)
_scanner_pattern ==
    { <<"s","q","l","m","a","p">>,
      <<"n","i","k","t","o">>,
      <<"n","m","a","p">>,
      <<"m","a","s","s","c","a","n">>,
      <<"b","u","r","p">>,
      <<"z","a","p">>,
      <<"a","c","u","n","e","t","i","x">>,
      <<"n","e","s","s","u","s">> }

\* /(login|signin|auth|authenticate|session)
_auth_paths_pattern ==
    { <<"/","l","o","g","i","n">>,
      <<"/","s","i","g","n","i","n">>,
      <<"/","a","u","t","h">>,
      <<"/","a","u","t","h","e","n","t","i","c","a","t","e">>,
      <<"/","s","e","s","s","i","o","n">> }

\* /(admin|dashboard)
_admin_paths_pattern ==
    { <<"/","a","d","m","i","n">>,
      <<"/","d","a","s","h","b","o","a","r","d">> }

\* /(user|account|profile)
_user_modification_pattern ==
    { <<"/","u","s","e","r">>,
      <<"/","a","c","c","o","u","n","t">>,
      <<"/","p","r","o","f","i","l","e">> }

\* \.(pdf|xlsx|doc|csv|zip|tar|gz)$
_file_extensions_pattern ==
    { <<".","p","d","f">>,
      <<".","x","l","s","x">>,
      <<".","d","o","c">>,
      <<".","c","s","v">>,
      <<".","z","i","p">>,
      <<".","t","a","r">>,
      <<".","g","z">> }

\* pattern.search(s) for an alternation of literals, ignoring case
SearchAnyCI(alts, s) == \E a \in alts : Contains(a, str_lower(s))

\* _file_extensions_pattern.search(s): one of the extensions at the end of
\* s, or just before a final newline
SearchExtension(s) ==
    LET body == IF Len(s) > 0 /\ s[Len(s)] = "\n"
                THEN SubSeq(s, 1, Len(s) - 1) ELSE s
        low  == str_lower(body)
    IN  \E a \in _file_extensions_pattern :
           /\ Len(a) <= Len(low)
           /\ HasPrefixAt(low, Len(low) - Len(a) + 1, a)

\* the cascade with the scanner check ahead of the attack signatures
_determine_event_type_scanner_first(method, path, status, user_agent) ==
    LET hits == {k \in 1..Len(_attack_patterns_compiled) :
                    SearchCI(_attack_patterns_compiled[k].lits,
                             _attack_patterns_compiled[k].gaps, path)}
    IN  IF path = <<>> /\ method = <<>> /\ user_agent = <<>>
        THEN <<"L","O","G","_","E","N","T","R","Y">>
        ELSE IF SearchAnyCI(_scanner_pattern, user_agent)
        THEN <<"S","C","A","N","N","E","R","_","D","E","T","E","C","T","E","D">>
        ELSE IF hits # {} THEN _attack_patterns_compiled[Min(hits)].label
        ELSE IF SearchAnyCI(_auth_paths_pattern, path) /\ status \in {401, 403}
        THEN <<"L","O","G","I","N","_","F","A","I","L","U","R","E">>
        ELSE IF /\ SearchAnyCI(_auth_paths_pattern, path)
                /\ status = 200 /\ method = <<"P","O","S","T">>
        THEN <<"L","O","G","I","N","_","S","U","C","C","E","S","S">>
        ELSE IF status = 403
        THEN <<"A","C","C","E","S","S","_","D","E","N","I","E","D">>
        ELSE IF status = 401
        THEN <<"U","N","A","U","T","H","O","R","I","Z","E","D">>
        ELSE IF SearchAnyCI(_admin_paths_pattern, path)
        THEN <<"A","D","M","I","N","_","A","C","C","E","S","S">>
        ELSE IF method = <<"D","E","L","E","T","E">>
        THEN <<"D","E","L","E","T","E","_","O","P","E","R","A","T","I","O","N">>
        ELSE IF /\ method \in {<<"P","O","S","T">>, <<"P","U","T">>,
                               <<"P","A","T","C","H">>}
                /\ SearchAnyCI(_user_modification_pattern, path)
        THEN <<"U","S","E","R","_","M","O","D","I","F","I","C","A","T","I","O","N">>
        ELSE IF SearchExtension(path)
        THEN <<"F","I","L","E","_","A","C","C","E","S","S">>
        ELSE IF status >= 500
        THEN <<"S","E","R","V","E","R","_","E","R","R","O","R">>
        ELSE IF status >= 400
        THEN <<"C","L","I","E","N","T","_","E","R","R","O","R">>
        ELSE IF method # <<>> \/ status # 0
        THEN <<"W","E","B","_","A","C","C","E","S","S">>
        ELSE <<"L","O","G","_","E","N","T","R","Y">>

\* AccessLogParser._determine_event_type: the classification cascade
_determine_event_type(method, path, status, user_agent) ==
    LET hits == {k \in 1..Len(_attack_patterns_compiled) :
                    SearchCI(_attack_patterns_compiled[k].lits,
                             _attack_patterns_compiled[k].gaps, path)}
    IN  IF path = <<>> /\ method = <<>> /\ user_agent = <<>>
        THEN <<"L","O","G","_","E","N","T","R","Y">>
        ELSE IF hits # {} THEN _attack_patterns_compiled[Min(hits)].label
        ELSE IF SearchAnyCI(_scanner_pattern, user_agent)
        THEN <<"S","C","A","N","N","E","R","_","D","E","T","E","C","T","E","D">>
        ELSE IF SearchAnyCI(_auth_paths_pattern, path) /\ status \in {401, 403}
        THEN <<"L","O","G","I","N","_","F","A","I","L","U","R","E">>
        ELSE IF /\ SearchAnyCI(_auth_paths_pattern, path)
                /\ status = 200 /\ method = <<"P","O","S","T">>
        THEN <<"L","O","G","I","N","_","S","U","C","C","E","S","S">>
        ELSE IF status = 403
        THEN <<"A","C","C","E","S","S","_","D","E","N","I","E","D">>
        ELSE IF status = 401
        THEN <<"U","N","A","U","T","H","O","R","I","Z","E","D">>
        ELSE IF SearchAnyCI(_admin_paths_pattern, path)
        THEN <<"A","D","M","I","N","_","A","C","C","E","S","S">>
        ELSE IF method = <<"D","E","L","E","T","E">>
        THEN <<"D","E","L","E","T","E","_","O","P","E","R","A","T","I","O","N">>
        ELSE IF /\ method \in {<<"P","O","S","T">>, <<"P","U","T">>,
                               <<"P","A","T","C","H">>}
                /\ SearchAnyCI(_user_modification_pattern, path)
        THEN <<"U","S","E","R","_","M","O","D","I","F","I","C","A","T","I","O","N">>
        ELSE IF SearchExtension(path)
        THEN <<"F","I","L","E","_","A","C","C","E","S","S">>
        ELSE IF status >= 500
        THEN <<"S","E","R","V","E","R","_","E","R","R","O","R">>
        ELSE IF status >= 400
        THEN <<"C","L","I","E","N","T","_","E","R","R","O","R">>
        ELSE IF method # <<>> \/ status # 0
        THEN <<"W","E","B","_","A","C","C","E","S","S">>
        ELSE <<"L","O","G","_","E","N","T","R","Y">>

severity_keys ==
    { <<"l","e","v","e","l">>, <<"s","e","v","e","r","i","t","y">>,
      <<"p","r","i","o","r","i","t","y">> }
user_keys ==
    { <<"u","s","e","r">>, <<"u","s","e","r","n","a","m","e">>,
      <<"u","s","e","r","_","i","d">>, <<"u","s","e","r","i","d">>,
      <<"u","i","d">> }
message_keys ==
    { <<"m","e","s","s","a","g","e">>, <<"m","s","g">>,
      <<"l","o","g","_","m","e","s","s","a","g","e">> }
host_keys ==
    { <<"i","p">>, <<"c","l","i","e","n","t","_","i","p">>,
      <<"r","e","m","o","t","e","_","a","d","d","r">>,
      <<"s","r","c","_","i","p">>, <<"s","o","u","r","c","e","_","i","p">>,
      <<"c","l","i","e","n","t","i","p">> }
source_keys ==
    { <<"s","o","u","r","c","e">>, <<"l","o","g","g","e","r">>,
      <<"c","o","m","p","o","n","e","n","t">>, <<"s","e","r","v","i","c","e">> }

status_keys ==
    { <<"s","t","a","t","u","s">>,
      <<"s","t","a","t","u","s","_","c","o","d","e">>,
      <<"r","e","s","p","o","n","s","e","_","c","o","d","e">>,
      <<"s","t","a","t","u","s","c","o","d","e">> }
method_keys ==
    { <<"m","e","t","h","o","d">>,
      <<"h","t","t","p","_","m","e","t","h","o","d">>,
      <<"r","e","q","u","e","s","t","_","m","e","t","h","o","d">> }
path_keys ==
    { <<"p","a","t","h">>, <<"u","r","i">>, <<"u","r","l">>,
      <<"r","e","q","u","e","s","t","_","u","r","i">>,
      <<"e","n","d","p","o","i","n","t">> }
time_keys ==
    { <<"t","i","m","e">>, <<"t","i","m","e","s","t","a","m","p">>,
      <<"d","a","t","e","t","i","m","e">>,
      <<"@","t","i","m","e","s","t","a","m","p">>,
      <<"e","v","e","n","t","_","t","i","m","e">> }

\* value.strip('"\'')
strip_quotes(s) ==
    LET at == {i \in 1..Len(s) : s[i] \notin {"\"", "'"}}
    IN  IF at = {} THEN <<>>
        ELSE Slice(s, Min(at), CHOOSE i \in at : \A j \in at : j <= i)

\* str.isdigit: a non-empty text of characters with the Unicode digit
\* property; "sup2" is the one character U+00B2 (superscript two), which
\* has it and is no decimal digit
isdigit(s) == Len(s) > 0 /\ \A i \in 1..Len(s) : IsDigit(s[i]) \/ s[i] = "sup2"

\* int(s) of a text isdigit accepts: ValueError unless every character is a
\* decimal digit
RECURSIVE int(_)
int(s) ==
    IF \E i \in 1..Len(s) : ~IsDigit(s[i]) THEN Raised
    ELSE IF Len(s) = 0 THEN Ret(0)
    ELSE LET d == CHOOSE n \in 0..9 :
                     <<"0","1","2","3","4","5","6","7","8","9">>[n + 1]
                        = s[Len(s)]
         IN  Ret(10 * int(Slice(s, 1, Len(s) - 1)).value + d)

\* str(n) of a natural number
RECURSIVE str(_)
str(n) ==
    LET d == <<<<"0","1","2","3","4","5","6","7","8","9">>[(n % 10) + 1]>>
    IN  IF n < 10 THEN d ELSE str(n \div 10) \o d

\* lines 353-379: the key/value pairs from position i on, applied in order
\* to the extracted fields; int() or _parse_timestamp may raise
RECURSIVE kv_loop(_, _, _, _)
kv_loop(self, kv, i, extracted) ==
    IF i > Len(kv) THEN Ret(extracted)
    ELSE
    LET value     == strip_quotes(kv[i].value)
        key_lower == str_lower(kv[i].key)
        ts        == _parse_timestamp(self, value)
        next(ex)  == kv_loop(self, kv, i + 1, ex)
    IN  IF key_lower \in user_keys
        THEN next([extracted EXCEPT !.user = value])
        ELSE IF key_lower \in host_keys
        THEN next([extracted EXCEPT !.host = value])
        ELSE IF key_lower \in status_keys
        THEN IF isdigit(value) /\ int(value).raised THEN Raised
             ELSE next([extracted EXCEPT
                          !.status_code = IF isdigit(value)
                                          THEN int(value).value ELSE 0,
                          !.is_web_log = TRUE])
        ELSE IF key_lower \in method_keys
        THEN next([extracted EXCEPT !.method = str_upper(value),
                                    !.is_web_log = TRUE])
        ELSE IF key_lower \in path_keys
        THEN next([extracted EXCEPT !.path = value, !.is_web_log = TRUE])
        ELSE IF key_lower \in time_keys
        THEN IF ts.raised THEN Raised
             ELSE next([extracted EXCEPT !.timestamp = ts.value])
        ELSE IF key_lower \in message_keys
        THEN next([extracted EXCEPT !.raw_message = value])
        ELSE IF key_lower \in severity_keys
        THEN next([extracted EXCEPT !.severity = value])
        ELSE IF key_lower \in source_keys
        THEN next([extracted EXCEPT !.source = value])
        ELSE next(extracted)

\* lines 399-410: event type of a non-web line from its severity
severity_event_type(severity) ==
    LET s == str_upper(severity)
    IN  IF s \in {<<"E","R","R","O","R">>, <<"F","A","T","A","L">>,
                  <<"C","R","I","T","I","C","A","L">>}
        THEN <<"E","R","R","O","R">>
        ELSE IF s \in {<<"W","A","R","N","I","N","G">>, <<"W","A","R","N">>}
        THEN <<"W","A","R","N","I","N","G">>
        ELSE IF s \in {<<"I","N","F","O">>,
                       <<"I","N","F","O","R","M","A","T","I","O","N">>}
        THEN <<"I","N","F","O">>
        ELSE IF s \in {<<"D","E","B","U","G">>, <<"T","R","A","C","E">>}
        THEN <<"D","E","B","U","G">>
        ELSE <<"L","O","G","_","E","N","T","R","Y">>

\* s[:50]
first50(s) == IF Len(s) <= 50 THEN s ELSE Slice(s, 1, 50)

\* lines 414-430: the parts of the raw message of a web line
raw_parts(ex) ==
    (IF ex.method # <<>> /\ ex.path # <<>>
     THEN <<ex.method \o <<" ">> \o ex.path>> ELSE <<>>)
    \o (IF ex.status_code # 0
        THEN << <<"S","t","a","t","u","s",":">> \o str(ex.status_code) >>
        ELSE <<>>)
    \o (IF ex.user_agent # <<>> /\ ex.user_agent # <<"-">>
        THEN << <<"U","A",":">> \o first50(ex.user_agent) >> ELSE <<>>)
    \o (IF ex.referer # <<>> /\ ex.referer # <<"-">>
        THEN << <<"R","e","f",":">> \o first50(ex.referer) >> ELSE <<>>)

\* lines 413-436: extra_data, the fields among these that were found
flexible_extra_data(ex) ==
    LET keep == {k \in {"method", "path", "status_code", "user_agent",
                        "referer", "severity", "source"} :
                   \/ k \in {"method", "path"} /\ ex.is_web_log
                         /\ ex.method # <<>> /\ ex.path # <<>>
                   \/ k = "status_code" /\ ex.is_web_log /\ ex.status_code # 0
                   \/ k = "user_agent" /\ ex.is_web_log
                         /\ ex.user_agent \notin {<<>>, <<"-">>}
                   \/ k = "referer" /\ ex.is_web_log
                         /\ ex.referer \notin {<<>>, <<"-">>}
                   \/ k = "severity" /\ ex.severity # <<>>
                   \/ k = "source" /\ ex.source # <<>>}
    IN  [k \in keep |-> ex[k]]

\* AccessLogParser._flexible_parse. The line record holds what the regular
\* expressions of lines 316-350 and 382 find in the text: ip, the bracketed
\* or ISO timestamp text (ts_src, ts_text) and whether it looks like a
\* timestamp (ts_looks), the HTTP method and path, the three-digit status,
\* the key/value pairs and the quoted strings.
_flexible_parse(self, line, line_num) ==
    LET ts  == IF line.ts_src # "none" /\ line.ts_looks
               THEN _parse_timestamp(self, line.ts_text) ELSE Ret(utcnow)
        nq  == Len(line.quoted)
        ex0 == [timestamp   |-> IF ts.raised THEN utcnow ELSE ts.value,
                user        |-> <<>>,
                host        |-> line.ip,
                raw_message |-> line.text,
                method      |-> IF line.http = <<>> THEN <<>>
                                ELSE str_upper(line.http[1]),
                path        |-> IF line.http = <<>> THEN <<>>
                                ELSE line.http[2],
                status_code |-> IF line.status3 = <<>> THEN 0
                                ELSE int(line.status3).value,
                user_agent  |-> <<>>,
                referer     |-> <<>>,
                is_web_log  |-> line.http # <<>> \/ line.status3 # <<>>,
                severity    |-> <<>>,
                source      |-> <<>>]
        kvs == kv_loop(self, line.kv, 1, ex0)
        ex1 == kvs.value
        ex  == [ex1 EXCEPT
                  !.referer = IF nq >= 2 /\ line.quoted[nq - 1] # <<"-">>
                              THEN line.quoted[nq - 1] ELSE <<>>,
                  !.user_agent = IF nq >= 1 /\ line.quoted[nq] # <<"-">>
                                 THEN line.quoted[nq] ELSE <<>>]
    IN  IF ts.raised \/ kvs.raised THEN Raised
        ELSE Ret([timestamp   |-> ex.timestamp,
                  user        |-> ex.user,
                  host        |-> ex.host,
                  event_type  |->
                      IF ex.is_web_log
                      THEN _determine_event_type(ex.method, ex.path,
                                                 ex.status_code, ex.user_agent)
                      ELSE severity_event_type(ex.severity),
                  raw_message |-> IF ex.is_web_log /\ raw_parts(ex) # <<>>
                                  THEN JoinBar(raw_parts(ex))
                                  ELSE ex.raw_message,
                  line_number |-> line_num,
                  extra_data  |-> flexible_extra_data(ex)])

\* patterns_to_try in the order of PATTERNS, whatever was detected
patterns_to_try_list_order(self) == [p \in 1..NumPatterns |-> p]

\* _parse_line 210-212: the detected grammar, then the other grammars in the
\* order of PATTERNS
patterns_to_try(self) ==
    (IF self._detected_pattern # 0 THEN <<self._detected_pattern>> ELSE <<>>)
    \o SelectSeq([p \in 1..NumPatterns |-> p],
                 LAMBDA p : p # self._detected_pattern)

\* _parse_line 214-218: the grammar whose match leaves the loop (0 when the
\* loop ends without a match)
first_match(self, line) ==
    LET t   == patterns_to_try(self)
        hit == {k \in 1..Len(t) : t[k] \in line.grammars}
    IN  IF hit = {} THEN 0 ELSE t[Min(hit)]

\* AccessLogParser._parse_line: the first grammar that matches builds the
\* event, a line no grammar matches goes to _flexible_parse
_parse_line(self, line, line_num) ==
    IF first_match(self, line) # 0 THEN _build_event_from_match(line, line_num)
    ELSE _flexible_parse(self, line, line_num)

\* AccessLogParser.parse on a parser with attributes self: whether it
\* raises, the events it returns and the attributes it leaves
RECURSIVE parse_lines(_, _, _)
parse_lines(self, lines, i) ==
    IF i > Len(lines) THEN <<>>
    ELSE LET line == lines[i]
             r    == _parse_line(self, line, i)
         IN  IF Len(line.text) = 0 \/ line.text[1] = "#" \/ r.raised
             THEN parse_lines(self, lines, i + 1)
             ELSE <<r.value>> \o parse_lines(self, lines, i + 1)
parse(self, lines) ==
    LET d == _detect_format(self, lines)
    IN  IF d.raised THEN [raised |-> TRUE, events |-> <<>>, self |-> d.value]
        ELSE [raised |-> FALSE, events |-> parse_lines(d.value, lines, 1),
              self |-> d.value]

\* BaseParser.normalize_timestamp: what dateutil makes of the text
\* (cell.dateutil is the hour it parses to, -1 when it raises), the current
\* time when it raises
normalize_timestamp(cell) ==
    IF cell.dateutil >= 0 THEN TsDatetime(cell.dateutil) ELSE utcnow

\* CSVParser._try_parse_timestamp; cell.strptime is the hour strptime reads
\* from a bracketed Apache timestamp, -1 when it raises
_try_parse_timestamp(cell) ==
    IF Falsy(cell.text) \/ Len(cell.text) < 8 THEN TsNone
    ELSE IF cell.text[1] = "[" /\ cell.strptime >= 0
         THEN TsDatetime(cell.strptime)
         ELSE normalize_timestamp(cell)

\* any(kw in key.lower() for kw in keywords)
KeyHas(key, keywords) ==
    \E i \in 1..Len(keywords) : Contains(keywords[i], str_lower(key))

timestamp_keywords ==
    << <<"t","i","m","e">>, <<"t","i","m","e","s","t","a","m","p">>,
       <<"d","a","t","e">>, <<"d","a","t","e","t","i","m","e">>,
       <<"c","r","e","a","t","e","d">>, <<"l","o","g","g","e","d">>,
       <<"w","h","e","n">> >>

\* CSVParser._find_timestamp_smart: the first parsable value among the
\* columns with a timestamp-like name, then among all columns, else now
_find_timestamp_smart(row) ==
    LET named == {i \in 1..Len(row) :
                    /\ KeyHas(row[i].key, timestamp_keywords)
                    /\ _try_parse_timestamp(row[i].cell) # TsNone}
        any   == {i \in 1..Len(row) : _try_parse_timestamp(row[i].cell) # TsNone}
    IN  IF named # {} THEN _try_parse_timestamp(row[Min(named)].cell)
        ELSE IF any # {} THEN _try_parse_timestamp(row[Min(any)].cell)
        ELSE utcnow

user_keywords ==
    << <<"u","s","e","r">>, <<"u","s","e","r","n","a","m","e">>,
       <<"a","c","c","o","u","n","t">>, <<"a","c","t","o","r">>,
       <<"i","d","e","n","t","i","t","y">>, <<"l","o","g","i","n">> >>

\* `value or ''`
OrEmpty(v) == IF Falsy(v) THEN <<>> ELSE v

\* value of the first column whose name has one of the keywords, dflt if
\* there is no such column
FirstNamed(row, keywords, dflt) ==
    LET at == {i \in 1..Len(row) : KeyHas(row[i].key, keywords)}
    IN  IF at = {} THEN dflt ELSE OrEmpty(row[Min(at)].cell.text)

_find_user(row) == FirstNamed(row, user_keywords, <<>>)

IsWordChar(c) ==
    \/ IsDigit(c) \/ c = "_"
    \/ \E i \in 1..Len(LowerChars) : c = LowerChars[i] \/ c = UpperChars[i]

\* IP_PATTERN.search(value) for \b(?:\d{1,3}\.){3}\d{1,3}\b
_is_ip_address(value) ==
    /\ ~Falsy(value)
    /\ \E i \in 1..Len(value) :
         LET p1 == OctetThen(value, i, ".")
             p2 == OctetThen(value, p1, ".")
             p3 == OctetThen(value, p2, ".")
             n4 == IF p3 = 0 THEN 0 ELSE DigitRun(value, p3)
         IN  /\ (i = 1 \/ ~IsWordChar(value[i - 1]))
             /\ p3 # 0 /\ n4 >= 1 /\ n4 <= 3
             /\ (p3 + n4 > Len(value) \/ ~IsWordChar(value[p3 + n4]))

ip_keywords ==
    << <<"i","p">>, <<"s","r","c","_","i","p">>,
       <<"s","o","u","r","c","e","_","i","p">>, <<"d","e","s","t","_","i","p">>,
       <<"d","e","s","t","i","n","a","t","i","o","n","_","i","p">>,
       <<"c","l","i","e","n","t","_","i","p">>,
       <<"r","e","m","o","t","e","_","i","p">> >>

host_keywords ==
    << <<"h","o","s","t">>, <<"h","o","s","t","n","a","m","e">>,
       <<"c","o","m","p","u","t","e","r">>, <<"s","o","u","r","c","e">>,
       <<"s","e","r","v","e","r">>, <<"m","a","c","h","i","n","e">> >>

\* CSVParser._find_host_smart: an IP in an IP-named column, then an IP in
\* any column, then the first host-named column
_find_host_smart(row) ==
    LET named == {i \in 1..Len(row) :
                    /\ KeyHas(row[i].key, ip_keywords)
                    /\ _is_ip_address(row[i].cell.text)}
        any   == {i \in 1..Len(row) : _is_ip_address(row[i].cell.text)}
    IN  IF named # {} THEN row[Min(named)].cell.text
        ELSE IF any # {} THEN row[Min(any)].cell.text
        ELSE FirstNamed(row, host_keywords, <<>>)

action_keywords ==
    << <<"a","c","t","i","o","n">>, <<"e","v","e","n","t","_","t","y","p","e">>,
       <<"e","v","e","n","t">>, <<"a","c","t","i","v","i","t","y">>,
       <<"o","p","e","r","a","t","i","o","n">>, <<"m","e","t","h","o","d">> >>

url_keywords ==
    << <<"u","r","l">>, <<"r","e","q","u","e","s","t">>, <<"u","r","i">>,
       <<"p","a","t","h">> >>

id_keywords ==
    << <<"e","v","e","n","t","_","i","d">>, <<"e","v","e","n","t","i","d">>,
       <<"i","d">>, <<"c","o","d","e">> >>

\* variant: the action value is cut to its first token, as a URL is
_find_event_type_smart_first_token(row) ==
    LET action == {i \in 1..Len(row) : KeyHas(row[i].key, action_keywords)}
        url    == {i \in 1..Len(row) :
                     /\ KeyHas(row[i].key, url_keywords)
                     /\ ~Falsy(row[i].cell.text)
                     /\ FirstToken(row[i].cell.text) # <<>>}
        ids    == {i \in 1..Len(row) : KeyHas(row[i].key, id_keywords)}
        filled == {i \in 1..Len(row) : ~Falsy(row[i].cell.text)}
    IN  IF action # {}
        THEN FirstToken(OrEmpty(row[Min(action)].cell.text))
        ELSE IF url # {} THEN FirstToken(row[Min(url)].cell.text)
        ELSE IF ids # {} THEN OrEmpty(row[Min(ids)].cell.text)
        ELSE IF filled # {} THEN row[Min(filled)].cell.text
        ELSE <<"U","N","K","N","O","W","N">>

\* CSVParser._find_event_type_smart
_find_event_type_smart(row) ==
    LET action == {i \in 1..Len(row) : KeyHas(row[i].key, action_keywords)}
        url    == {i \in 1..Len(row) :
                     /\ KeyHas(row[i].key, url_keywords)
                     /\ ~Falsy(row[i].cell.text)
                     /\ FirstToken(row[i].cell.text) # <<>>}
        ids    == {i \in 1..Len(row) : KeyHas(row[i].key, id_keywords)}
        filled == {i \in 1..Len(row) : ~Falsy(row[i].cell.text)}
    IN  IF action # {} THEN OrEmpty(row[Min(action)].cell.text)
        ELSE IF url # {} THEN FirstToken(row[Min(url)].cell.text)
        ELSE IF ids # {} THEN OrEmpty(row[Min(ids)].cell.text)
        ELSE IF filled # {} THEN row[Min(filled)].cell.text
        ELSE <<"U","N","K","N","O","W","N">>

\* line 123: "key=value" of every non-empty column, joined with ' | '
csv_raw_message(row) ==
    LET filled == SelectSeq(row, LAMBDA c : ~Falsy(c.cell.text))
    IN  JoinBar([i \in 1..Len(filled) |->
                    filled[i].key \o <<"=">> \o filled[i].cell.text])

\* key.strip()
Strip(s) ==
    LET at == {i \in 1..Len(s) : ~IsSpace(s[i])}
    IN  IF at = {} THEN <<>>
        ELSE Slice(s, Min(at), CHOOSE i \in at : \A j \in at : j <= i)

\* line 130: key.strip().replace(' ', '_').replace('.', '_').lower()
clean_key(key) ==
    LET k == Strip(key)
    IN  str_lower([i \in 1..Len(k) |->
                     IF k[i] \in {" ", "."} THEN "_" ELSE k[i]])

\* lines 126-131: the non-empty columns under their cleaned names, a later
\* column replacing an earlier one of the same cleaned name
csv_extra_data(row) ==
    LET filled == {i \in 1..Len(row) : ~Falsy(row[i].cell.text)}
    IN  [k \in {clean_key(row[i].key) : i \in filled} |->
            LET at == {i \in filled : clean_key(row[i].key) = k}
            IN  row[CHOOSE i \in at : \A j \in at : j <= i].cell.text]

\* a cell DictReader fills in for a column the row has no field for
NoneCell == [text |-> PyNone, dateutil |-> -1, strptime |-> -1]

\* the dict handed to _map_csv_row: the header names with the cells of the
\* row in column order, None for a missing cell, a surplus cell under the
\* key None
RowDict(header, r) ==
    LET n == IF Len(header) >= Len(r.cells) THEN Len(header) ELSE Len(r.cells)
    IN  [i \in 1..n |->
            [key  |-> IF i <= Len(header) THEN header[i] ELSE PyNone,
             cell |-> IF i <= Len(r.cells) THEN r.cells[i] ELSE NoneCell]]

\* CSVParser._map_csv_row.  A row with the key None never gets past line
\* 130, where key.strip() raises AttributeError (its value, a list, is not
\* empty); the lines before it return nothing and change nothing.
_map_csv_row(row, line_num) ==
    IF \E i \in 1..Len(row) : row[i].key = PyNone THEN Raised
    ELSE Ret([timestamp   |-> _find_timestamp_smart(row),
              user        |-> _find_user(row),
              host        |-> _find_host_smart(row),
              event_type  |-> _find_event_type_smart(row),
              raw_message |-> csv_raw_message(row),
              line_number |-> line_num,
              extra_data  |-> csv_extra_data(row)])

(***************************************************************************)
(* Detector and factory inputs                                             *)
(***************************************************************************)
FilenameSamples ==
    { <<"a",".","c","s","v">>,
      <<"A",".","C","S","V">>,
      <<"e",".","e","v","t","x">>,
      <<"j",".","j","s","o","n">>,
      <<"a",".","l","o","g">>,
      <<"n",".","T","X","T">>,
      <<"d","a","t","a">>,
      <<".","l","o","g">>,
      <<"a",".","c","s","v",".","l","o","g">>,
      <<"x",".","d","a","t">>,
      <<"d",".","v","/","f">> }

FirstLineSamples ==
    { <<"1",".","2",".","3",".","4"," ","-"," ","[","t","]"," ","\"","G","E","T"," ","/">>,
      <<"1",".","2",".","3",".","4"," ","-"," ","[","t","]"," ","\"","G","E","T"," ","/","<","a",">">>,
      <<"1",".","2",".","3",".","4"," ","a",",","b",",","c"," ","[","t","]"," ","\"","P","O","S","T"," ","/">>,
      <<"J","a","n"," ","1"," ","h"," ","k","e","r","n","e","l",":"," ","u","p">>,
      <<"<","1",">","a",",","b",",","c">>,
      <<"t","i","m","e",",","u","s","e","r",",","s","r","c","_","i","p",",","a","c","t","i","o","n">>,
      <<"a",",","b">>,
      <<"h","e","l","l","o">>,
      <<"D","A","E","M","O","N"," ","x">>,
      <<"1","2","3","4",".","1",".","1",".","1"," ","-"," ","[","t","]"," ","\"","G","E","T"," ","/">>,
      <<"1",".","2",".","3",".","4"," ","-"," ","[","t","]"," ","\"","F","E","T","C","H"," ","/">> }

SecondLine == <<"x",",","y",",","z"," ","<","k","e","r","n","e","l",":",">">>

\* a missing or unreadable file, an empty file, one-line and two-line files
FileSamples ==
    {[readable |-> FALSE, lines |-> <<>>], [readable |-> TRUE, lines |-> <<>>]}
        \cup {[readable |-> TRUE, lines |-> <<l>>] : l \in FirstLineSamples}
        \cup {[readable |-> TRUE, lines |-> <<l, SecondLine>>] : l \in FirstLineSamples}

TagSamples ==
    { T_CSV, <<"c","s","v">>, T_SYSLOG, <<"C","u","s","t","o","m">> }

ClassSamples == {"SyslogParser", "AccessLogParser", "dict"}

NoCall == [op |-> "none", tag |-> <<>>, cls |-> "", raised |-> "",
           ret |-> NoneParser]

\* no request has been classified
IdleCascade ==
    /\ cReq = [method |-> <<>>, path |-> <<>>, status |-> 0, user_agent |-> <<>>]
    /\ cType = <<>>

\* the case has no scored event and no filter request runs
IdleFilter ==
    /\ aRows = <<>>
    /\ aThreshold = 0
    /\ aEvents = <<>>
    /\ aIdx = 1
    /\ aPc = "idle"
    /\ aRun = 0
    /\ aBefore = <<>>

\* no upload request runs
IdleUpload ==
    /\ uPc = "idle"
    /\ uMode = "none"
    /\ uView = <<>>
    /\ uSync = <<>>
    /\ uIdx = 1
    /\ uReparses = 0
    /\ tPc = "none"
    /\ tObj = <<>>
    /\ tIdx = 1
    /\ tBatch = <<>>
    /\ uEvents = <<>>
    /\ tEvents = <<>>

\* no format detection runs
IdleFormat ==
    /\ mFile = <<>>
    /\ mSelf = FreshSelf
    /\ mPc = "idle"
    /\ mIdx = 1
    /\ mTried = <<>>

\* the ingestion routines are not running
IdleIngest ==
    /\ eRow = [is_parsed |-> FALSE, parse_error |-> ""]
    /\ eObj = [is_parsed |-> FALSE, parse_error |-> ""]
    /\ gPath = "none"
    /\ gPc = "idle"
    /\ gHasParser = FALSE
    /\ gFileOk = FALSE
    /\ gIdx = 1
    /\ gBatch = <<>>
    /\ gOutcome = "none"
    /\ dbParsed = <<>>

\* no scoring routine is running and the case has no parsed event
IdleScoring ==
    /\ sParsed = <<>>
    /\ dbScored = <<>>
    /\ sTask = <<>>
    /\ sBulk = [pc |-> "idle"]
    /\ sSync = [pc |-> "idle"]

IdleDetect ==
    /\ dFilename = <<>>
    /\ dFile = [readable |-> FALSE, lines |-> <<>>]
    /\ dPc = "idle"
    /\ dResult = <<>>
    /\ dConsulted = <<>>
    /\ dReads = <<>>
    /\ dParser = NoneParser

IdleFactory ==
    /\ _parsers = InitialParsers
    /\ fLast = NoCall
    /\ fPrev = InitialParsers
    /\ fLog = <<>>
    /\ fIssued = {}
    /\ fNext = 1
    /\ fCalls = 0

\* the scorer is not part of this run
IdleScore ==
    /\ event = [event_type |-> <<>>, raw_message |-> <<>>, user |-> <<>>,
                timestamp |-> TsNone]
    /\ result = NoResult
    /\ first = NoResult
    /\ calls = 0
    /\ now = 14
    /\ firstNow = 14

(***************************************************************************)
(* Parser inputs                                                           *)
(***************************************************************************)
NoMatch == [matched |-> FALSE, strptime |-> FALSE, hour |-> 0,
            host |-> <<>>, process |-> <<>>, message |-> <<>>]

\* stripped syslog lines with the groups SYSLOG_PATTERN finds in them:
\* an empty line, 'Jan 12 03:04:05 h sshd: ok', 'Foo 12 23:04:05 h p: m'
\* (strptime rejects the month), 'hello'
SyslogLineSamples ==
    { [text |-> <<>>, m |-> NoMatch],
      [text |-> <<"J","a","n"," ","1","2"," ","0","3",":","0","4",":","0","5"," ","h"," ","s","s","h","d",":"," ","o","k">>,
       m |-> [matched |-> TRUE, strptime |-> TRUE, hour |-> 3,
              host |-> <<"h">>, process |-> <<"s","s","h","d">>,
              message |-> <<"o","k">>]],
      [text |-> <<"F","o","o"," ","1","2"," ","2","3",":","0","4",":","0","5"," ","h"," ","p",":"," ","m">>,
       m |-> [matched |-> TRUE, strptime |-> FALSE, hour |-> 0,
              host |-> <<"h">>, process |-> <<"p">>, message |-> <<"m">>]],
      [text |-> <<"h","e","l","l","o">>, m |-> NoMatch] }

\* stripped access-log lines with what the regular expressions of the
\* parser find in them: the grammars of PATTERNS that match, the timestamp
\* group (gts) and the request fields (req) of the match, and the findings
\* of _flexible_parse (ip, ts_src, ts_text, ts_looks, http, status3, kv,
\* quoted). The lines: an empty line, '#c',
\* '1.2.3.4 - - [t] "GET / H" 200 5', the same with the timestamp '[ ]',
\* 'level=error disk', 'user=bob msg=hi',
\* '10.0.0.1 - - [12/Jan/2026:10:00:00 +0000] "GET /../etc/passwd HTTP/1.1" 403 512',
\* '[12/Jan/2026:10:00:00 +0530] disk full', 'status=<U+00B2> x',
\* 'time="  " x', 'hello world'
AccessLineSamples ==
    { [ text |-> <<>>,
        grammars |-> {},
        blank_ts |-> FALSE,
        gts |-> <<>>,
        req |-> [method |-> <<>>, path |-> <<>>, status |-> 0, user_agent |-> <<>>],
        ip |-> <<>>,
        ts_src |-> "none",
        ts_text |-> <<>>,
        ts_looks |-> FALSE,
        http |-> <<>>,
        status3 |-> <<>>,
        kv |-> <<>>,
        quoted |-> <<>> ],
      [ text |-> <<"#","c">>,
        grammars |-> {},
        blank_ts |-> FALSE,
        gts |-> <<>>,
        req |-> [method |-> <<>>, path |-> <<>>, status |-> 0, user_agent |-> <<>>],
        ip |-> <<>>,
        ts_src |-> "none",
        ts_text |-> <<>>,
        ts_looks |-> FALSE,
        http |-> <<>>,
        status3 |-> <<>>,
        kv |-> <<>>,
        quoted |-> <<>> ],
      [ text |-> <<"1",".","2",".","3",".","4"," ","-"," ","-"," ","[","t","]"," ","\"","G","E","T"," ","/"," ","H","\""," ","2","0","0"," ","5">>,
        grammars |-> {1, 2, 4},
        blank_ts |-> FALSE,
        gts |-> <<"t">>,
        req |-> [method |-> <<"G","E","T">>, path |-> <<"/">>, status |-> 200, user_agent |-> <<>>],
        ip |-> <<"1",".","2",".","3",".","4">>,
        ts_src |-> "bracket",
        ts_text |-> <<"t">>,
        ts_looks |-> FALSE,
        http |-> <<<<"G","E","T">>, <<"/">>>>,
        status3 |-> <<"2","0","0">>,
        kv |-> <<>>,
        quoted |-> <<<<"G","E","T"," ","/"," ","H">>>> ],
      [ text |-> <<"1",".","2",".","3",".","4"," ","-"," ","-"," ","["," ","]"," ","\"","G","E","T"," ","/"," ","H","\""," ","2","0","0"," ","5">>,
        grammars |-> {1, 2, 4},
        blank_ts |-> TRUE,
        gts |-> <<" ">>,
        req |-> [method |-> <<"G","E","T">>, path |-> <<"/">>, status |-> 200, user_agent |-> <<>>],
        ip |-> <<"1",".","2",".","3",".","4">>,
        ts_src |-> "bracket",
        ts_text |-> <<" ">>,
        ts_looks |-> FALSE,
        http |-> <<<<"G","E","T">>, <<"/">>>>,
        status3 |-> <<"2","0","0">>,
        kv |-> <<>>,
        quoted |-> <<<<"G","E","T"," ","/"," ","H">>>> ],
      [ text |-> <<"l","e","v","e","l","=","e","r","r","o","r"," ","d","i","s","k">>,
        grammars |-> {},
        blank_ts |-> FALSE,
        gts |-> <<>>,
        req |-> [method |-> <<>>, path |-> <<>>, status |-> 0, user_agent |-> <<>>],
        ip |-> <<>>,
        ts_src |-> "none",
        ts_text |-> <<>>,
        ts_looks |-> FALSE,
        http |-> <<>>,
        status3 |-> <<>>,
        kv |-> <<[key |-> <<"l","e","v","e","l">>, value |-> <<"e","r","r","o","r">>]>>,
        quoted |-> <<>> ],
      [ text |-> <<"u","s","e","r","=","b","o","b"," ","m","s","g","=","h","i">>,
        grammars |-> {},
        blank_ts |-> FALSE,
        gts |-> <<>>,
        req |-> [method |-> <<>>, path |-> <<>>, status |-> 0, user_agent |-> <<>>],
        ip |-> <<>>,
        ts_src |-> "none",
        ts_text |-> <<>>,
        ts_looks |-> FALSE,
        http |-> <<>>,
        status3 |-> <<>>,
        kv |-> <<[key |-> <<"u","s","e","r">>, value |-> <<"b","o","b">>], [key |-> <<"m","s","g">>, value |-> <<"h","i">>]>>,
        quoted |-> <<>> ],
      [ text |-> <<"1","0",".","0",".","0",".","1"," ","-"," ","-"," ","[","1","2","/","J","a","n","/","2","0","2","6",":","1","0",":","0","0",":","0","0"," ","+","0","0","0","0","]"," ","\"","G","E","T"," ","/",".",".","/","e","t","c","/","p","a","s","s","w","d"," ","H","T","T","P","/","1",".","1","\""," ","4","0","3"," ","5","1","2">>,
        grammars |-> {1, 2, 4},
        blank_ts |-> FALSE,
        gts |-> <<"1","2","/","J","a","n","/","2","0","2","6",":","1","0",":","0","0",":","0","0"," ","+","0","0","0","0">>,
        req |-> [method |-> <<"G","E","T">>, path |-> <<"/",".",".","/","e","t","c","/","p","a","s","s","w","d">>, status |-> 403, user_agent |-> <<>>],
        ip |-> <<"1","0",".","0",".","0",".","1">>,
        ts_src |-> "bracket",
        ts_text |-> <<"1","2","/","J","a","n","/","2","0","2","6",":","1","0",":","0","0",":","0","0"," ","+","0","0","0","0">>,
        ts_looks |-> TRUE,
        http |-> <<<<"G","E","T">>, <<"/",".",".","/","e","t","c","/","p","a","s","s","w","d">>>>,
        status3 |-> <<"4","0","3">>,
        kv |-> <<[key |-> <<"2","0","2","6">>, value |-> <<"1","0",":","0","0",":","0","0">>]>>,
        quoted |-> <<<<"G","E","T"," ","/",".",".","/","e","t","c","/","p","a","s","s","w","d"," ","H","T","T","P","/","1",".","1">>>> ],
      [ text |-> <<"[","1","2","/","J","a","n","/","2","0","2","6",":","1","0",":","0","0",":","0","0"," ","+","0","5","3","0","]"," ","d","i","s","k"," ","f","u","l","l">>,
        grammars |-> {},
        blank_ts |-> FALSE,
        gts |-> <<>>,
        req |-> [method |-> <<>>, path |-> <<>>, status |-> 0, user_agent |-> <<>>],
        ip |-> <<>>,
        ts_src |-> "bracket",
        ts_text |-> <<"1","2","/","J","a","n","/","2","0","2","6",":","1","0",":","0","0",":","0","0"," ","+","0","5","3","0">>,
        ts_looks |-> TRUE,
        http |-> <<>>,
        status3 |-> <<>>,
        kv |-> <<[key |-> <<"2","0","2","6">>, value |-> <<"1","0",":","0","0",":","0","0">>]>>,
        quoted |-> <<>> ],
      [ text |-> <<"s","t","a","t","u","s","=","sup2"," ","x">>,
        grammars |-> {},
        blank_ts |-> FALSE,
        gts |-> <<>>,
        req |-> [method |-> <<>>, path |-> <<>>, status |-> 0, user_agent |-> <<>>],
        ip |-> <<>>,
        ts_src |-> "none",
        ts_text |-> <<>>,
        ts_looks |-> FALSE,
        http |-> <<>>,
        status3 |-> <<>>,
        kv |-> <<[key |-> <<"s","t","a","t","u","s">>, value |-> <<"sup2">>]>>,
        quoted |-> <<>> ],
      [ text |-> <<"t","i","m","e","=","\""," "," ","\""," ","x">>,
        grammars |-> {},
        blank_ts |-> FALSE,
        gts |-> <<>>,
        req |-> [method |-> <<>>, path |-> <<>>, status |-> 0, user_agent |-> <<>>],
        ip |-> <<>>,
        ts_src |-> "none",
        ts_text |-> <<>>,
        ts_looks |-> FALSE,
        http |-> <<>>,
        status3 |-> <<>>,
        kv |-> <<[key |-> <<"t","i","m","e">>, value |-> <<"\""," "," ","\"">>]>>,
        quoted |-> <<<<" "," ">>>> ],
      [ text |-> <<"h","e","l","l","o"," ","w","o","r","l","d">>,
        grammars |-> {},
        blank_ts |-> FALSE,
        gts |-> <<>>,
        req |-> [method |-> <<>>, path |-> <<>>, status |-> 0, user_agent |-> <<>>],
        ip |-> <<>>,
        ts_src |-> "none",
        ts_text |-> <<>>,
        ts_looks |-> FALSE,
        http |-> <<>>,
        status3 |-> <<>>,
        kv |-> <<>>,
        quoted |-> <<>> ] }

Cell(text, dateutil) == [text |-> text, dateutil |-> dateutil, strptime |-> -1]

CsvHeader ==
    << <<"t","i","m","e">>, <<"u","s","e","r">>,
       <<"s","r","c","_","i","p">>, <<"a","c","t","i","o","n">> >>

C_time  == Cell(<<"2","0","2","6","-","0","1","-","1","2"," ","1","0",":","0","0",":","0","0">>, 10)
C_na    == Cell(<<"n","/","a">>, -1)
C_admin == Cell(<<"a","d","m","i","n">>, -1)
C_bob   == Cell(<<"b","o","b">>, -1)
C_ip    == Cell(<<"1","0",".","0",".","0",".","5">>, -1)
C_host1 == Cell(<<"h","o","s","t","1">>, -1)
C_login == Cell(<<"l","o","g","i","n"," ","f","a","i","l","e","d">>, -1)
C_out   == Cell(<<"l","o","g","o","u","t">>, -1)
C_x     == Cell(<<"x">>, -1)
\* stands for a field of more than 131072 characters
C_huge  == Cell(<<"A","A","A","A","A","A","A","A">>, -1)

\* data rows: complete, without a parsable time, two fields short, one
\* field too many, with a field over the csv module's field size limit,
\* with text in the time column and the timestamp in the action column
CsvRowSamples ==
    { [cells |-> <<C_time, C_admin, C_ip, C_login>>, huge |-> FALSE],
      [cells |-> <<C_na, C_bob, C_host1, C_out>>, huge |-> FALSE],
      [cells |-> <<C_time, C_bob>>, huge |-> FALSE],
      [cells |-> <<C_time, C_admin, C_ip, C_login, C_x>>, huge |-> FALSE],
      [cells |-> <<C_na, C_bob, C_ip, C_huge>>, huge |-> TRUE],
      [cells |-> <<C_login, C_bob, C_host1, C_time>>, huge |-> FALSE] }

\* an empty line of a CSV file: csv.reader and read_csv (skip_blank_lines)
\* pass over it without yielding a row
BlankRow == [cells |-> <<>>, huge |-> FALSE]
IsBlankRow(r) == r.cells = <<>>

\* the number the loop gives the row read from data line i:
\* enumerate(reader, start=2) (csv_parser.py line 90) and idx + 2 (line 57)
\* count the rows yielded, the header being 1
reader_line_num(lines, i) ==
    1 + Cardinality({k \in 1..i : ~IsBlankRow(lines[k])})

IsShort(r) == Len(r.cells) < Len(CsvHeader)
IsRagged(r) == Len(r.cells) > Len(CsvHeader)

SeqsUpTo(S, n) == UNION {[1..k -> S] : k \in 0..n}

ParserKinds == {"syslog", "access", "csv"}

LineSamples(kind) ==
    IF kind = "syslog" THEN SyslogLineSamples
    ELSE IF kind = "access" THEN AccessLineSamples
    ELSE CsvRowSamples

\* no parser runs
IdleParse ==
    /\ pKind = "none"
    /\ pFile = [header |-> <<>>, lines |-> <<>>]
    /\ pHasPandas = FALSE
    /\ pStreaming = FALSE
    /\ pPc = "idle"
    /\ pIdx = 1
    /\ pEvents = <<>>
    /\ pSkipped = <<>>
    /\ pDetected = 0
    /\ pTsFormat = 0
    /\ pRun = 0


(***************************************************************************)
(* Detector specification: detect_log_type, then the factory lookup        *)
(***************************************************************************)
InitDetect ==
    /\ IdleCascade
    /\ IdleFilter
    /\ IdleUpload
    /\ IdleFormat
    /\ IdleIngest
    /\ IdleScoring
    /\ dFilename \in FilenameSamples
    /\ dFile \in FileSamples
    /\ dPc = "ext"
    /\ dResult = <<>>
    /\ dConsulted = <<>>
    /\ dReads = <<>>
    /\ dParser = NoneParser
    /\ IdleFactory
    /\ IdleScore
    /\ IdleParse

\* lines 20-29: the extension rules
DetectExtension ==
    /\ dPc = "ext"
    /\ LET ext == extension(dFilename)
       IN  IF ext = <<".","c","s","v">> THEN dResult' = T_CSV /\ dPc' = "done"
           ELSE IF ext = <<".","e","v","t","x">> THEN dResult' = T_EVTX /\ dPc' = "done"
           ELSE IF ext = <<".","j","s","o","n">> THEN dResult' = T_JSON /\ dPc' = "done"
           ELSE IF ext \in {<<".","l","o","g">>, <<".","t","x","t">>}
                THEN dResult' = dResult /\ dPc' = "logtxt"
                ELSE dResult' = dResult /\ dPc' = "fallback"
    /\ UNCHANGED <<dFilename, dFile, dConsulted, dReads, dParser, facVars, scoreVars, parseVars,
                   ingVars, scVars, reqVars, fltVars, upVars, fmtVars>>

\* lines 30-35: the next content heuristic for .log/.txt
DetectLogTxt ==
    /\ dPc = "logtxt"
    /\ LET n    == Len(dConsulted) + 1
           name == LogTxtOrder[n]
           r    == Heuristic(name, dFile)
       IN  /\ dConsulted' = Append(dConsulted, name)
           /\ dReads' = dReads \o HelperReads(dFile)
           /\ IF r.raised THEN dPc' = "raised" /\ dResult' = dResult
              ELSE IF r.value THEN dPc' = "done" /\ dResult' = HeuristicTag(name)
              ELSE IF n < Len(LogTxtOrder) THEN dPc' = "logtxt" /\ dResult' = dResult
              ELSE dPc' = "fallback" /\ dResult' = dResult
    /\ UNCHANGED <<dFilename, dFile, dParser, facVars, scoreVars, parseVars,
                   ingVars, scVars, reqVars, fltVars, upVars, fmtVars>>

\* lines 37-41: the CSV fallback, else UNKNOWN
DetectFallback ==
    /\ dPc = "fallback"
    /\ LET r == Heuristic("csv", dFile)
       IN  /\ dConsulted' = Append(dConsulted, "csv")
           /\ dReads' = dReads \o HelperReads(dFile)
           /\ IF r.raised THEN dPc' = "raised" /\ dResult' = dResult
              ELSE IF r.value THEN dPc' = "done" /\ dResult' = T_CSV
              ELSE dPc' = "done" /\ dResult' = T_UNKNOWN
    /\ UNCHANGED <<dFilename, dFile, dParser, facVars, scoreVars, parseVars,
                   ingVars, scVars, reqVars, fltVars, upVars, fmtVars>>

\* tasks.py 27-28: parser = ParserFactory.get_parser(evidence.log_type)
RouteToParser ==
    /\ dPc = "done"
    /\ dParser' = get_parser(_parsers, dResult, fNext)
    /\ fNext' = IF dParser'.cls = "None" THEN fNext ELSE fNext + 1
    /\ dPc' = "routed"
    /\ UNCHANGED <<dFilename, dFile, dResult, dConsulted, dReads,
                   _parsers, fLast, fPrev, fLog, fIssued, fCalls, scoreVars,
                   parseVars,
                   ingVars, scVars, reqVars, fltVars, upVars, fmtVars>>

NextDetect == DetectExtension \/ DetectLogTxt \/ DetectFallback \/ RouteToParser

SpecDetect == InitDetect /\ [][NextDetect]_vars

(***************************************************************************)
(* Factory specification: any sequence of register_parser / get_parser     *)
(***************************************************************************)
InitFactory ==
    /\ IdleCascade
    /\ IdleFilter
    /\ IdleUpload
    /\ IdleFormat
    /\ IdleIngest
    /\ IdleScoring
    /\ IdleFactory
    /\ IdleDetect
    /\ IdleScore
    /\ IdleParse

RegisterParser ==
    /\ fCalls < MaxFactoryCalls
    /\ fCalls' = fCalls + 1
    /\ \E tag \in TagSamples, c \in ClassSamples :
        LET r == register_parser(_parsers, tag, c)
        IN  /\ _parsers' = r.reg
            /\ fPrev' = _parsers
            /\ fLast' = [op |-> "register", tag |-> tag, cls |-> c,
                         raised |-> r.raised, ret |-> NoneParser]
            /\ fLog' = IF r.raised = "" THEN Append(fLog, [tag |-> tag, cls |-> c])
                       ELSE fLog
            /\ fIssued' = IF fLast.op = "get" /\ fLast.ret.cls # "None"
                          THEN fIssued \cup {fLast.ret.id} ELSE fIssued
            /\ UNCHANGED fNext
    /\ UNCHANGED <<detVars, scoreVars, parseVars,
                   ingVars, scVars, reqVars, fltVars, upVars, fmtVars>>

GetParser ==
    /\ fCalls < MaxFactoryCalls
    /\ fCalls' = fCalls + 1
    /\ \E tag \in TagSamples :
        LET p == get_parser(_parsers, tag, fNext)
        IN  /\ fLast' = [op |-> "get", tag |-> tag, cls |-> "",
                         raised |-> "", ret |-> p]
            /\ fPrev' = _parsers
            /\ fNext' = IF p.cls = "None" THEN fNext ELSE fNext + 1
            /\ fIssued' = IF fLast.op = "get" /\ fLast.ret.cls # "None"
                          THEN fIssued \cup {fLast.ret.id} ELSE fIssued
            /\ UNCHANGED <<_parsers, fLog>>
    /\ UNCHANGED <<detVars, scoreVars, parseVars,
                   ingVars, scVars, reqVars, fltVars, upVars, fmtVars>>

NextFactory == RegisterParser \/ GetParser

SpecFactory == InitFactory /\ [][NextFactory]_vars

(***************************************************************************)
(* Detector and factory properties                                         *)
(***************************************************************************)
Detected == dPc \in {"done", "routed"}

FormatTags == {T_CSV, T_SYSLOG, T_ACCESS_LOG, T_JSON, T_EVTX, T_UNKNOWN}

ExtensionTagged ==
    extension(dFilename) \in
        {<<".","c","s","v">>, <<".","e","v","t","x">>, <<".","j","s","o","n">>}

LogOrTxt ==
    extension(dFilename) \in {<<".","l","o","g">>, <<".","t","x","t">>}

\* what each content heuristic says about the file under detection
LooksAccess == _is_access_log_format(dFile).value
LooksSyslog == _is_syslog_format(dFile).value
LooksCsv == _is_csv_format(dFile).value

\* C7: detect_log_type never raises, reads no line beyond the first, returns
\* one of the six tags, and returns UNKNOWN whenever no extension rule and
\* no heuristic matches (a missing, unreadable or empty file included).
C7_DetectTotal ==
    /\ dPc # "raised"
    /\ \A i \in 1..Len(dReads) : dReads[i] <= 1
    /\ Detected => dResult \in FormatTags
    /\ (Detected /\ ~ExtensionTagged /\ ~LooksCsv
          /\ ~(LogOrTxt /\ (LooksAccess \/ LooksSyslog)))
       => dResult = T_UNKNOWN

\* a file that cannot be opened went through every heuristic and came out
\* UNKNOWN
C7_Witness ==
    /\ Detected
    /\ ~dFile.readable
    /\ dConsulted = <<"access", "syslog", "csv">>
    /\ dResult = T_UNKNOWN

\* C8: fixed priority, first success wins: extension .csv/.evtx/.json
\* decides without looking at the content; for .log/.txt the access-log
\* heuristic is tested before the syslog one; the CSV heuristic is consulted
\* only after both gave no result, for any extension; otherwise UNKNOWN.
C8_DetectPriority ==
    Detected =>
        LET ext == extension(dFilename) IN
        /\ ext = <<".","c","s","v">> => dResult = T_CSV /\ dConsulted = <<>>
        /\ ext = <<".","e","v","t","x">> => dResult = T_EVTX /\ dConsulted = <<>>
        /\ ext = <<".","j","s","o","n">> => dResult = T_JSON /\ dConsulted = <<>>
        /\ (LogOrTxt /\ LooksAccess)
             => dResult = T_ACCESS_LOG /\ dConsulted = <<"access">>
        /\ (LogOrTxt /\ ~LooksAccess /\ LooksSyslog)
             => dResult = T_SYSLOG /\ dConsulted = <<"access", "syslog">>
        /\ (LogOrTxt /\ ~LooksAccess /\ ~LooksSyslog)
             => dConsulted = <<"access", "syslog", "csv">>
        /\ (~ExtensionTagged /\ ~LogOrTxt) => dConsulted = <<"csv">>
        /\ (Len(dConsulted) > 0 /\ dConsulted[Len(dConsulted)] = "csv")
             => dResult = IF LooksCsv THEN T_CSV ELSE T_UNKNOWN

\* a .log file whose first line satisfies the access-log and the syslog
\* heuristic was classified ACCESS_LOG
C8_Witness ==
    /\ Detected
    /\ LogOrTxt /\ LooksAccess /\ LooksSyslog
    /\ dResult = T_ACCESS_LOG

\* the class most recently registered under the tag of the last get_parser
\* call, tags compared case-insensitively; "None" if there is none
MostRecentlyRegistered(tag) ==
    LET key  == str_upper(tag)
        regs == {i \in 1..Len(fLog) : str_upper(fLog[i].tag) = key}
    IN  IF regs # {}
        THEN fLog[CHOOSE i \in regs : \A j \in regs : j <= i].cls
        ELSE IF key \in DOMAIN InitialParsers THEN InitialParsers[key]
        ELSE "None"

C10_DetectedFormatHasParser ==
    dPc = "routed" =>
        /\ dResult = T_CSV => dParser.cls = "CSVParser"
        /\ dResult = T_SYSLOG => dParser.cls = "SyslogParser"
        /\ dResult = T_ACCESS_LOG => dParser.cls = "AccessLogParser"

(***************************************************************************)
(* Scorer specification                                                    *)
(***************************************************************************)
InitScore ==
    /\ IdleCascade
    /\ IdleFilter
    /\ IdleUpload
    /\ IdleFormat
    /\ IdleIngest
    /\ IdleScoring
    /\ event \in Events
    /\ result = NoResult
    /\ first = NoResult
    /\ calls = 0
    /\ now \in ClockHours
    /\ firstNow = now
    /\ IdleDetect
    /\ IdleFactory
    /\ IdleParse

\* result = scorer.score_event(event)
ScoreEvent ==
    /\ calls < MaxCalls
    /\ result' = score_event(event)
    /\ first' = IF calls = 0 THEN result' ELSE first
    /\ calls' = calls + 1
    /\ firstNow' = IF calls = 0 THEN now ELSE firstNow
    /\ UNCHANGED <<event, now, detVars, facVars, parseVars,
                   ingVars, scVars, reqVars, fltVars, upVars, fmtVars>>

\* the wall clock moves between two calls
Tick ==
    /\ now' \in ClockHours \ {now}
    /\ firstNow' = IF calls = 0 THEN now' ELSE firstNow
    /\ UNCHANGED <<event, result, first, calls, detVars, facVars,
                   parseVars,
                   ingVars, scVars, reqVars, fltVars, upVars, fmtVars>>

NextScore == ScoreEvent \/ Tick

SpecScore == InitScore /\ [][NextScore]_vars

(***************************************************************************)
(* Scorer specification with optional fields                               *)
(***************************************************************************)
\* event_data.get(key, default)
dict_get(event_data, key, default) ==
    IF key \in DOMAIN event_data THEN event_data[key] ELSE default

\* the call scorer.score_event(event_data) on a dict whose optional keys
\* may be missing or None: lines 81 and 86 read user with .get('user', '')
\* and timestamp with .get('timestamp'), host is not read; a user of None
\* reaches user.lower() (line 127) and ends in AttributeError
score_event_call(event_data) ==
    LET user == dict_get(event_data, "user", <<>>)
        ts   == dict_get(event_data, "timestamp", TsNone)
    IN  IF user = PyNone THEN Raised
        ELSE Ret(score_event([event_type  |-> event_data["event_type"],
                              raw_message |-> event_data["raw_message"],
                              user        |-> user,
                              timestamp   |-> ts]))

\* the optional field is left out of the dict, None or a value
Optional(key, none, values) ==
    {<<>>} \cup {key :> v : v \in {none} \cup values}

\* events with optional fields missing, None, empty or set
OptionalEvents ==
    { [event_type |-> et, raw_message |-> rm] @@ u @@ h @@ t :
        et \in {<<"x">>, <<"l","o","g","i","n"," ","f","a","i","l","e","d">>},
        rm \in {<<"y">>, <<"r","o","o","t">>},
        u \in Optional("user", PyNone, {<<>>, <<"a","d","m","i","n">>}),
        h \in Optional("host", PyNone, {<<>>}),
        t \in Optional("timestamp", TsNone, {TsStr(<<>>), TsDatetime(3)}) }

InitOptional ==
    /\ IdleCascade
    /\ IdleFilter
    /\ IdleUpload
    /\ IdleFormat
    /\ IdleIngest
    /\ IdleScoring
    /\ event \in OptionalEvents
    /\ result = NoResult
    /\ first = NoResult
    /\ calls = 0
    /\ now = 14
    /\ firstNow = 14
    /\ IdleDetect
    /\ IdleFactory
    /\ IdleParse

\* result = scorer.score_event(event), or the exception it ends in
ScoreOptional ==
    /\ calls = 0
    /\ result' = score_event_call(event)
    /\ calls' = 1
    /\ UNCHANGED <<event, first, now, firstNow, detVars, facVars, parseVars,
                   ingVars, scVars, reqVars, fltVars, upVars, fmtVars>>

SpecOptional == InitOptional /\ [][ScoreOptional]_vars

(***************************************************************************)
(* Scorer properties                                                       *)
(***************************************************************************)
Scored == calls > 0

\* sum(feature_scores.values()) in insertion order, as Python adds doubles
FeatureSum(fs) ==
    FAdd(FAdd(FAdd(FAdd(FLit(0), fs.event_type), fs.keywords), fs.user),
         fs.temporal)

\* C1: for every input event, including one whose fields are all empty
\* strings, the confidence returned by score_event lies in [0.0, 1.0].
C1_ConfidenceInUnitInterval ==
    Scored => /\ FLe(FLit(0), result.confidence)
              /\ FLe(result.confidence, FLit(100))

\* an event with all fields empty has been scored (base score 0.1)
C1_Witness ==
    /\ Scored
    /\ event.event_type = <<>> /\ event.raw_message = <<>>
    /\ event.user = <<>> /\ event.timestamp = TsStr(<<>>)
    /\ result.confidence = FLit(10)

\* C2: the returned label is the threshold function of the returned
\* confidence with inclusive lower bounds: >= 0.8 CRITICAL, [0.6, 0.8) HIGH,
\* [0.3, 0.6) MEDIUM, < 0.3 LOW.
C2_LabelIsThresholdFunction ==
    Scored =>
        LET c == result.confidence
            l == result.risk_label
        IN  /\ FGe(c, FLit(80)) => l = "CRITICAL"
            /\ (FGe(c, FLit(60)) /\ FLt(c, FLit(80))) => l = "HIGH"
            /\ (FGe(c, FLit(30)) /\ FLt(c, FLit(60))) => l = "MEDIUM"
            /\ FLt(c, FLit(30)) => l = "LOW"
            /\ l \in {"CRITICAL", "HIGH", "MEDIUM", "LOW"}

\* a confidence of exactly 0.8 has been labelled CRITICAL
C2_Witness ==
    Scored /\ result.confidence = FLit(80) /\ result.risk_label = "CRITICAL"

C4_FeatureSumBoundsConfidence ==
    Scored =>
        /\ DOMAIN result.feature_scores
              = {"event_type", "keywords", "user", "temporal"}
        /\ result.confidence
              = FMin(FeatureSum(result.feature_scores), FLit(100))
        /\ FGe(FeatureSum(result.feature_scores), result.confidence)

\* a clamped result: the feature scores sum to more than the confidence
C4_Witness ==
    /\ Scored
    /\ result.confidence = FLit(100)
    /\ FLt(result.confidence, FeatureSum(result.feature_scores))
    /\ result.feature_scores.user = FLit(30)

(***************************************************************************)
(* Parser specification: one parse call on one file, line by line          *)
(***************************************************************************)
\* the file is lines 1..Len; a CSV file is a header line and data rows.
\* pandas reads complete and over-long rows only.
InitParse ==
    /\ IdleCascade
    /\ IdleFilter
    /\ IdleUpload
    /\ IdleFormat
    /\ IdleIngest
    /\ IdleScoring
    /\ pKind \in ParserKinds
    /\ \E ls \in SeqsUpTo(LineSamples(pKind), MaxLines) :
          pFile = [header |-> IF pKind = "csv" THEN CsvHeader ELSE <<>>,
                   lines |-> ls]
    /\ pHasPandas \in (IF pKind = "csv" THEN BOOLEAN ELSE {FALSE})
    /\ pHasPandas => \A i \in 1..Len(pFile.lines) : ~IsShort(pFile.lines[i])
    /\ pStreaming \in (IF pKind = "access" THEN BOOLEAN ELSE {FALSE})
    /\ pPc = IF pKind = "syslog" THEN "loop" ELSE "start"
    /\ pIdx = 1
    /\ pEvents = <<>>
    /\ pSkipped = <<>>
    /\ pDetected = 0
    /\ pTsFormat = 0
    /\ pRun = 0
    /\ event = [event_type |-> <<>>, raw_message |-> <<>>, user |-> <<>>,
                timestamp |-> TsNone]
    /\ result = NoResult
    /\ first = NoResult
    /\ calls = 0
    /\ now \in ClockHours
    /\ firstNow = now
    /\ IdleDetect
    /\ IdleFactory

\* the attributes of the AccessLogParser instance
Self == [_detected_pattern |-> pDetected,
         _detected_timestamp_format |-> pTsFormat]

\* the body of a parse loop after the call that handles the line: append
\* the event if it validates, skip the line if the call raised
LoopBody(r, line_num) ==
    /\ pEvents' = IF ~r.raised /\ validate_event(r.value)
                  THEN Append(pEvents, r.value) ELSE pEvents
    /\ pSkipped' = IF r.raised THEN Append(pSkipped, line_num) ELSE pSkipped
    /\ pIdx' = pIdx + 1

\* SyslogParser.parse, lines 30-41: one iteration
SyslogLine ==
    /\ pKind = "syslog" /\ pPc = "loop" /\ pIdx <= Len(pFile.lines)
    /\ LET line == pFile.lines[pIdx]
       IN  IF Len(line.text) = 0
           THEN pIdx' = pIdx + 1 /\ UNCHANGED <<pEvents, pSkipped>>
           ELSE LoopBody(_parse_syslog_line(line, pIdx), pIdx)
    /\ UNCHANGED <<pKind, pRun, pFile, pHasPandas, pStreaming, pPc, pDetected,
                   pTsFormat, scoreVars, detVars, facVars,
                   ingVars, scVars, reqVars, fltVars, upVars, fmtVars>>

\* AccessLogParser.parse 127-130 / parse_streaming 154-157: _detect_format
\* runs outside every try, so what it raises leaves parse
AccessDetectFormat ==
    /\ pKind = "access" /\ pPc = "start"
    /\ LET r == _detect_format(Self, pFile.lines)
       IN  /\ pPc' = IF r.raised THEN "raised" ELSE "loop"
           /\ pDetected' = r.value._detected_pattern
           /\ pTsFormat' = r.value._detected_timestamp_format
    /\ UNCHANGED <<pKind, pRun, pFile, pHasPandas, pStreaming, pIdx, pEvents,
                   pSkipped, scoreVars, detVars, facVars,
                   ingVars, scVars, reqVars, fltVars, upVars, fmtVars>>

\* AccessLogParser.parse 132-144 / parse_streaming 159-169: one iteration
AccessLine ==
    /\ pKind = "access" /\ pPc = "loop" /\ pIdx <= Len(pFile.lines)
    /\ LET line == pFile.lines[pIdx]
       IN  IF Len(line.text) = 0 \/ line.text[1] = "#"
           THEN pIdx' = pIdx + 1 /\ UNCHANGED <<pEvents, pSkipped>>
           ELSE LoopBody(_parse_line(Self, line, pIdx), pIdx)
    /\ UNCHANGED <<pKind, pRun, pFile, pHasPandas, pStreaming, pPc, pDetected,
                   pTsFormat, scoreVars, detVars, facVars,
                   ingVars, scVars, reqVars, fltVars, upVars, fmtVars>>

\* CSVParser.parse 32-35 and _parse_with_pandas 46-53, 65-67: without
\* pandas the csv module reads the file; with pandas read_csv tokenizes the
\* file (one chunk), and a row with more fields than the header makes it
\* raise, which sends the whole file to _parse_with_csv
CsvDispatch ==
    /\ pKind = "csv" /\ pPc = "start"
    /\ pPc' = IF pHasPandas
                 /\ ~\E i \in 1..Len(pFile.lines) : IsRagged(pFile.lines[i])
              THEN "pandas" ELSE "loop"
    /\ UNCHANGED <<pKind, pRun, pFile, pHasPandas, pStreaming, pIdx, pEvents,
                   pSkipped, pDetected, pTsFormat, scoreVars, detVars,
                   facVars,
                   ingVars, scVars, reqVars, fltVars, upVars, fmtVars>>

\* _parse_with_pandas 55-64: one row of the chunk
PandasRow ==
    /\ pKind = "csv" /\ pPc = "pandas" /\ pIdx <= Len(pFile.lines)
    /\ IF IsBlankRow(pFile.lines[pIdx])
       THEN pIdx' = pIdx + 1 /\ UNCHANGED <<pEvents, pSkipped>>
       ELSE LoopBody(_map_csv_row(RowDict(pFile.header, pFile.lines[pIdx]),
                                  reader_line_num(pFile.lines, pIdx)),
                     reader_line_num(pFile.lines, pIdx))
    /\ UNCHANGED <<pKind, pRun, pFile, pHasPandas, pStreaming, pPc, pDetected,
                   pTsFormat, scoreVars, detVars, facVars,
                   ingVars, scVars, reqVars, fltVars, upVars, fmtVars>>

\* _parse_with_csv 90-98: the reader yields the next row (line 90, outside
\* the try) or raises csv.Error for a field over the field size limit,
\* then the row is mapped inside the try
CsvRow ==
    /\ pKind = "csv" /\ pPc = "loop" /\ pIdx <= Len(pFile.lines)
    /\ IF pFile.lines[pIdx].huge
       THEN pPc' = "raised" /\ UNCHANGED <<pIdx, pEvents, pSkipped>>
       ELSE IF IsBlankRow(pFile.lines[pIdx])
       THEN pIdx' = pIdx + 1 /\ pPc' = pPc /\ UNCHANGED <<pEvents, pSkipped>>
       ELSE /\ LoopBody(_map_csv_row(RowDict(pFile.header, pFile.lines[pIdx]),
                                     reader_line_num(pFile.lines, pIdx)),
                        reader_line_num(pFile.lines, pIdx))
            /\ pPc' = pPc
    /\ UNCHANGED <<pKind, pRun, pFile, pHasPandas, pStreaming, pDetected,
                   pTsFormat, scoreVars, detVars, facVars,
                   ingVars, scVars, reqVars, fltVars, upVars, fmtVars>>

\* the loop is over: return events (or the generator is exhausted)
ParseReturn ==
    /\ pPc \in {"loop", "pandas"} /\ pIdx > Len(pFile.lines)
    /\ pPc' = "returned"
    /\ UNCHANGED <<pKind, pRun, pFile, pHasPandas, pStreaming, pIdx, pEvents,
                   pSkipped, pDetected, pTsFormat, scoreVars, detVars,
                   facVars,
                   ingVars, scVars, reqVars, fltVars, upVars, fmtVars>>

\* score_events_bulk_task 176-188: the event data of one persisted event
\* handed to the scorer
event_data_of(parsed_event) ==
    [timestamp   |-> parsed_event.timestamp,
     user        |-> OrEmpty(parsed_event.user),
     event_type  |-> IF Falsy(parsed_event.event_type)
                     THEN <<"u","n","k","n","o","w","n">>
                     ELSE parsed_event.event_type,
     raw_message |-> OrEmpty(parsed_event.raw_message)]

\* the scoring that follows a parse (parse_evidence_file_task 77,
\* score_events_bulk_task 176-188): one of the events is scored
ScoreParsed ==
    /\ pPc = "returned" /\ calls < MaxCalls
    /\ \E k \in 1..Len(pEvents) :
          /\ event' = event_data_of(pEvents[k])
          /\ result' = score_event(event')
    /\ first' = IF calls = 0 THEN result' ELSE first
    /\ calls' = calls + 1
    /\ UNCHANGED <<now, firstNow, detVars, facVars, parseVars,
                   ingVars, scVars, reqVars, fltVars, upVars, fmtVars>>

NextParse ==
    \/ SyslogLine \/ AccessDetectFormat \/ AccessLine
    \/ CsvDispatch \/ PandasRow \/ CsvRow \/ ParseReturn \/ ScoreParsed

SpecParse == InitParse /\ [][NextParse]_vars

(***************************************************************************)
(* Parser properties                                                       *)
(***************************************************************************)
\* the loop passes over line i without handling it (empty line, comment)
PassedOver(i) ==
    LET line == pFile.lines[i]
    IN  \/ pKind = "syslog" /\ Len(line.text) = 0
        \/ pKind = "access" /\ (Len(line.text) = 0 \/ line.text[1] = "#")

\* what handling line i alone gives: its event or an exception
LineResult(i) ==
    LET line == pFile.lines[i]
    IN  IF pKind = "syslog" THEN _parse_syslog_line(line, i)
        ELSE IF pKind = "access" THEN _parse_line(Self, line, i)
        ELSE _map_csv_row(RowDict(pFile.header, line), i + 1)

\* the events of lines i.. that are handled without an exception, in file
\* order
RECURSIVE EventsFrom(_)
EventsFrom(i) ==
    IF i > Len(pFile.lines) THEN <<>>
    ELSE IF PassedOver(i) \/ LineResult(i).raised THEN EventsFrom(i + 1)
    ELSE <<LineResult(i).value>> \o EventsFrom(i + 1)

\* C5: every event a parser has returned (or yielded) so far carries
\* timestamp, event_type, raw_message and line_number, none of them None.
C5_RequiredFieldsNonNull ==
    \A i \in 1..Len(pEvents) :
        LET ev == pEvents[i]
        IN  /\ validate_event(ev)
            /\ ev.timestamp # TsNone
            /\ ev.event_type # PyNone
            /\ ev.raw_message # PyNone
            /\ ev.line_number \in Nat

\* the syslog parser returned the event of a line whose timestamp strptime
\* rejects, stamped with the current time
C5_Witness ==
    /\ pPc = "returned" /\ pKind = "syslog"
    /\ \E i \in 1..Len(pEvents) :
          /\ pFile.lines[pEvents[i].line_number].m.matched
          /\ ~pFile.lines[pEvents[i].line_number].m.strptime
          /\ pEvents[i].timestamp = TsDatetime(now)

\* C6: whatever a line does, parse does not raise, and what it returns is
\* the events, in file order, of exactly the lines handled without an
\* exception.
C6_BadLineSkippedOnly ==
    /\ pPc # "raised"
    /\ pPc = "returned" => pEvents = EventsFrom(1)

\* the access-log parser handles line i: it is neither empty nor a comment
Handled(i) ==
    Len(pFile.lines[i].text) > 0 /\ pFile.lines[i].text[1] # "#"

\* the events returned for line i
EventsOfLine(i) == {k \in 1..Len(pEvents) : pEvents[k].line_number = i}

\* C11: when AccessLogParser.parse returns, every non-empty, non-comment
\* line that one of the grammars matches has exactly one event, and that
\* event's type is what the classification cascade gives for the line's
\* method, path, status and user agent.
C11_MatchedLineYieldsEvent ==
    (pKind = "access" /\ pPc = "returned") =>
        \A i \in 1..Len(pFile.lines) :
            (Handled(i) /\ pFile.lines[i].grammars # {}) =>
                /\ Cardinality(EventsOfLine(i)) = 1
                /\ \A k \in EventsOfLine(i) :
                      pEvents[k].event_type =
                          LET req == pFile.lines[i].req
                          IN  _determine_event_type(req.method, req.path,
                                                    req.status, req.user_agent)

\* line i holds no IP address, no timestamp and no HTTP method or status
NoTokens(i) ==
    LET line == pFile.lines[i]
    IN  /\ line.ip = <<>>
        /\ line.ts_src = "none"
        /\ line.http = <<>>
        /\ line.status3 = <<>>

\* C12: when AccessLogParser.parse returns, every non-empty, non-comment
\* line that no grammar matches was handled without an exception and has
\* exactly one event; if the line holds no IP address, no timestamp and no
\* HTTP token, that event has event_type LOG_ENTRY, the line itself as
\* raw_message and a timestamp that is not None.
C12_FlexibleNeverRaises ==
    (pKind = "access" /\ pPc = "returned") =>
        \A i \in 1..Len(pFile.lines) :
            (Handled(i) /\ pFile.lines[i].grammars = {}) =>
                /\ \A k \in 1..Len(pSkipped) : pSkipped[k] # i
                /\ Cardinality(EventsOfLine(i)) = 1
                /\ NoTokens(i) =>
                      \A k \in EventsOfLine(i) :
                          /\ pEvents[k].event_type =
                                <<"L","O","G","_","E","N","T","R","Y">>
                          /\ pEvents[k].raw_message = pFile.lines[i].text
                          /\ pEvents[k].timestamp # TsNone

\* the row `2026-01-12 10:00:00,admin,10.0.0.5,login failed`
ScenarioRow == [cells |-> <<C_time, C_admin, C_ip, C_login>>, huge |-> FALSE]

\* the events returned for data row i of a CSV file (file line i + 1)
EventsOfRow(i) == {k \in 1..Len(pEvents) : pEvents[k].line_number = i + 1}

\* C13: when CSVParser.parse returns for a file with the header
\* time,user,src_ip,action, the row
\* `2026-01-12 10:00:00,admin,10.0.0.5,login failed` has exactly one event,
\* with user admin, host 10.0.0.5 and the action value as event_type; and
\* once that event is scored, the confidence is at least 0.3 and the risk
\* label is MEDIUM, HIGH or CRITICAL.
C13_CsvScenario ==
    (pKind = "csv" /\ pPc = "returned") =>
        \A i \in 1..Len(pFile.lines) :
            pFile.lines[i] = ScenarioRow =>
                /\ Cardinality(EventsOfRow(i)) = 1
                /\ \A k \in EventsOfRow(i) :
                      /\ pEvents[k].user = <<"a","d","m","i","n">>
                      /\ pEvents[k].host = <<"1","0",".","0",".","0",".","5">>
                      /\ pEvents[k].event_type = C_login.text
                      /\ (calls > 0 /\ event = event_data_of(pEvents[k])) =>
                            /\ FGe(result.confidence, FLit(30))
                            /\ result.risk_label
                                  \in {"MEDIUM", "HIGH", "CRITICAL"}

\* the scenario row was parsed and its event scored HIGH
C13_Witness ==
    /\ pKind = "csv" /\ pPc = "returned" /\ calls > 0
    /\ \E i \in 1..Len(pFile.lines) :
          /\ pFile.lines[i] = ScenarioRow
          /\ \E k \in EventsOfRow(i) : event = event_data_of(pEvents[k])
    /\ result.risk_label = "HIGH"

\* the cell holds a timestamp that parses: the hour it denotes, -1 if none
ParsedHour(cell) ==
    IF Falsy(cell.text) THEN -1
    ELSE IF cell.text[1] = "[" /\ cell.strptime >= 0 THEN cell.strptime
    ELSE cell.dateutil

\* C14: when CSVParser.parse returns, the event of every row in which some
\* cell holds a parseable timestamp carries the time parsed from one of the
\* row's cells, not the current time.
C14_TimestampFromCell ==
    (pKind = "csv" /\ pPc = "returned") =>
        \A i \in 1..Len(pFile.lines) :
            LET cells == pFile.lines[i].cells
                valid == {j \in 1..Len(cells) : ParsedHour(cells[j]) >= 0}
            IN  valid # {} =>
                    \A k \in EventsOfRow(i) :
                        \E j \in valid :
                            pEvents[k].timestamp
                                = TsDatetime(ParsedHour(cells[j]))

\* the timestamp text ends with an explicit UTC offset, ' +hhmm' or ' -hhmm'
HasOffset(ts) ==
    /\ Len(ts) >= 6
    /\ ts[Len(ts) - 5] = " "
    /\ ts[Len(ts) - 4] \in {"+", "-"}
    /\ \A j \in (Len(ts) - 3)..Len(ts) : IsDigit(ts[j])

\* C15: when AccessLogParser.parse returns, every event whose timestamp was
\* read from a bracketed timestamp with an explicit UTC offset denotes that
\* instant in UTC: the wall-clock time less the offset.
C15_TimestampInUtc ==
    (pKind = "access" /\ pPc = "returned") =>
        \A k \in 1..Len(pEvents) :
            LET line == pFile.lines[pEvents[k].line_number]
            IN  (/\ line.ts_src = "bracket" /\ line.ts_looks
                 /\ HasOffset(line.ts_text)
                 /\ \A j \in 1..Len(line.kv) :
                       str_lower(line.kv[j].key) \notin time_keys)
                => pEvents[k].timestamp = utc_instant(line.ts_text)

\* the event with every missing or None optional field set to the empty
\* string
Filled(event_data) ==
    LET user == dict_get(event_data, "user", <<>>)
        ts   == dict_get(event_data, "timestamp", TsNone)
    IN  [event_type  |-> event_data["event_type"],
         raw_message |-> event_data["raw_message"],
         user        |-> IF user = PyNone THEN <<>> ELSE user,
         timestamp   |-> IF ts = TsNone THEN TsStr(<<>>) ELSE ts]

\* C16: score_event called on an event whose user, host and timestamp are
\* each missing, None or a value does not raise, and returns what it
\* returns for the event with the missing fields set to the empty string.
C16_OptionalFieldsTolerated ==
    calls > 0 =>
        /\ ~result.raised
        /\ result.value = score_event(Filled(event))

(***************************************************************************)
(* Ingestion (tasks.py parse_evidence_file_task, views.py                  *)
(* _parse_evidence_sync): one run of one path on one evidence file         *)
(***************************************************************************)
\* an exception object: its class and its args
Exc(type, msg) == [type |-> type, args |-> <<msg>>]

\* str(e): the only argument, '' for an exception built without arguments
str_exc(e) == IF Len(e.args) = 0 THEN "" ELSE e.args[1]

FileNotFoundError == Exc("FileNotFoundError", "[Errno 2] No such file or directory")

CsvError == Exc("csv.Error", "field larger than field limit (131072)")

UnexpectedKeyword ==
    Exc("TypeError", "ParsedEvent() got unexpected keyword arguments: 'extra_data'")

DatabaseLocked == Exc("OperationalError", "database is locked")

BrokerDown == Exc("OperationalError", "Error 111 connecting to broker")

\* models.py 92-108: the fields ParsedEvent(...) accepts from event_data
ParsedEventFields ==
    {"timestamp", "user", "host", "event_type", "raw_message", "line_number"}

\* Model.__init__: a keyword that is no field raises TypeError
ParsedEvent(event_data) ==
    IF DOMAIN event_data \subseteq ParsedEventFields
    THEN Ret(event_data)
    ELSE [raised |-> TRUE, value |-> UnexpectedKeyword]

\* tasks.py 47-49: extra_data is added when the parser left it out
with_extra_data(event_data) ==
    IF "extra_data" \in DOMAIN event_data
    THEN event_data
    ELSE [k \in DOMAIN event_data \cup {"extra_data"} |->
             IF k = "extra_data" THEN <<>> ELSE event_data[k]]

\* tasks.py 30-33, views.py 304-307
no_parser(evidence) ==
    [evidence EXCEPT !.parse_error = "No parser available for log type: UNKNOWN"]

\* views.py 296-300
file_not_found(evidence) ==
    [evidence EXCEPT !.parse_error = "File not found: /media/evidence/upload.log"]

\* tasks.py 66-70, views.py 317-320
mark_parsed(evidence) ==
    [evidence EXCEPT !.is_parsed = TRUE, !.parse_error = ""]

\* the variant that keeps the row as it was
handle_exception_silent(row, e) == row

\* tasks.py 80-85, views.py 332-341: the evidence is read again and the
\* message of the exception is saved into it
handle_exception(row, e) == [row EXCEPT !.parse_error = str_exc(e)]

batch_size == 1000

RegisteredKinds == {"syslog", "csv"}

InitIngest ==
    /\ IdleCascade
    /\ IdleFilter
    /\ IdleUpload
    /\ IdleFormat
    /\ IdleScoring
    /\ IdleDetect
    /\ IdleFactory
    /\ IdleScore
    /\ pKind \in RegisteredKinds
    /\ \E ls \in SeqsUpTo(LineSamples(pKind), MaxLines) :
          pFile = [header |-> IF pKind = "csv" THEN CsvHeader ELSE <<>>,
                   lines |-> ls]
    /\ pHasPandas \in (IF pKind = "csv" THEN BOOLEAN ELSE {FALSE})
    /\ pHasPandas => \A i \in 1..Len(pFile.lines) : ~IsShort(pFile.lines[i])
    /\ pStreaming = FALSE
    /\ pPc = IF pKind = "syslog" THEN "loop" ELSE "start"
    /\ pIdx = 1
    /\ pEvents = <<>>
    /\ pSkipped = <<>>
    /\ pDetected = 0
    /\ pTsFormat = 0
    /\ pRun = 0
    /\ eRow = [is_parsed |-> FALSE, parse_error |-> ""]
    /\ eObj = eRow
    /\ gPath \in {"task", "sync"}
    /\ gPc = "start"
    /\ gHasParser \in BOOLEAN
    /\ gFileOk \in BOOLEAN
    /\ gIdx = 1
    /\ gBatch = <<>>
    /\ gOutcome = "none"
    /\ dbParsed = <<>>

\* the routine returns early after saving a message (no exception)
GiveUp(evidence, outcome) ==
    /\ eObj' = evidence
    /\ eRow' = evidence
    /\ gPc' = "done"
    /\ gOutcome' = outcome

\* the except clause of the routine
Except(e, outcome) ==
    /\ eRow' = handle_exception(eRow, e)
    /\ eObj' = eRow'
    /\ gPc' = "done"
    /\ gOutcome' = outcome

\* tasks.py 25-33, views.py 286-307: the evidence is read, the file is
\* looked up (sync path) and the parser is obtained
IngestStart ==
    /\ gPc = "start"
    /\ IF gPath = "sync" /\ ~gFileOk
       THEN GiveUp(file_not_found(eRow), "no_file")
       ELSE IF ~gHasParser
       THEN GiveUp(no_parser(eRow), "no_parser")
       ELSE IF ~gFileOk
       THEN Except(FileNotFoundError, "parse_raised")
       ELSE /\ eObj' = eRow
            /\ gPc' = "parsing"
            /\ UNCHANGED <<eRow, gOutcome>>
    /\ UNCHANGED <<gPath, gHasParser, gFileOk, gIdx, gBatch, dbParsed,
                   parseVars, scoreVars, detVars, facVars, scVars, reqVars, fltVars, upVars, fmtVars>>

\* tasks.py 38, views.py 309: parser.parse(path) runs
IngestParse ==
    /\ gPc = "parsing"
    /\ SyslogLine \/ CsvDispatch \/ PandasRow \/ CsvRow \/ ParseReturn

\* parser.parse is over: it returned the events or raised
IngestParsed ==
    /\ gPc = "parsing" /\ pPc \in {"returned", "raised"}
    /\ IF pPc = "raised"
       THEN Except(CsvError, "parse_raised")
       ELSE gPc' = "persist" /\ UNCHANGED <<eRow, eObj, gOutcome>>
    /\ UNCHANGED <<gPath, gHasParser, gFileOk, gIdx, gBatch, dbParsed,
                   parseVars, scoreVars, detVars, facVars, scVars, reqVars, fltVars, upVars, fmtVars>>

\* tasks.py 46-60: one event is constructed and appended to parsed_events,
\* a full batch is written with bulk_create
TaskPersistEvent ==
    /\ gPath = "task" /\ gPc = "persist" /\ gIdx <= Len(pEvents)
    /\ LET r == ParsedEvent(with_extra_data(pEvents[gIdx]))
       IN  IF r.raised
           THEN Except(r.value, "persist_raised")
                /\ UNCHANGED <<gIdx, gBatch, dbParsed>>
           ELSE IF Len(gBatch) + 1 < batch_size
           THEN /\ gBatch' = Append(gBatch, r.value)
                /\ gIdx' = gIdx + 1
                /\ UNCHANGED <<eRow, eObj, gPc, gOutcome, dbParsed>>
           ELSE \E ok \in BOOLEAN :
                   IF ok
                   THEN /\ dbParsed' = dbParsed \o Append(gBatch, r.value)
                        /\ gBatch' = <<>>
                        /\ gIdx' = gIdx + 1
                        /\ UNCHANGED <<eRow, eObj, gPc, gOutcome>>
                   ELSE Except(DatabaseLocked, "persist_raised")
                        /\ UNCHANGED <<gIdx, gBatch, dbParsed>>
    /\ UNCHANGED <<gPath, gHasParser, gFileOk,
                   parseVars, scoreVars, detVars, facVars, scVars, reqVars, fltVars, upVars, fmtVars>>

\* views.py 311-315: ParsedEvent.objects.create for one event; the INSERT
\* succeeds or the database refuses it
SyncPersistEvent ==
    /\ gPath = "sync" /\ gPc = "persist" /\ gIdx <= Len(pEvents)
    /\ LET r == ParsedEvent(pEvents[gIdx])
       IN  IF r.raised
           THEN Except(r.value, "persist_raised")
                /\ UNCHANGED <<gIdx, dbParsed>>
           ELSE \E ok \in BOOLEAN :
                   IF ok
                   THEN /\ dbParsed' = Append(dbParsed, r.value)
                        /\ gIdx' = gIdx + 1
                        /\ UNCHANGED <<eRow, eObj, gPc, gOutcome>>
                   ELSE Except(DatabaseLocked, "persist_raised")
                        /\ UNCHANGED <<gIdx, dbParsed>>
    /\ UNCHANGED <<gPath, gHasParser, gFileOk, gBatch,
                   parseVars, scoreVars, detVars, facVars, scVars, reqVars, fltVars, upVars, fmtVars>>

\* tasks.py 62-78: the remaining events are written, the evidence is
\* marked parsed and saved, the bulk scoring task is queued (the broker
\* accepts it or delay raises)
TaskFinish ==
    /\ gPath = "task" /\ gPc = "persist" /\ gIdx > Len(pEvents)
    /\ \E ok \in BOOLEAN, queued \in BOOLEAN :
          IF Len(gBatch) > 0 /\ ~ok
          THEN Except(DatabaseLocked, "persist_raised")
               /\ UNCHANGED <<gBatch, dbParsed>>
          ELSE /\ dbParsed' = dbParsed \o gBatch
               /\ gBatch' = <<>>
               /\ gPc' = "done"
               /\ IF queued
                  THEN /\ eObj' = mark_parsed(eObj)
                       /\ eRow' = eObj'
                       /\ gOutcome' = "parsed"
                  ELSE /\ eRow' = handle_exception(mark_parsed(eObj), BrokerDown)
                       /\ eObj' = eRow'
                       /\ gOutcome' = "queue_raised"
    /\ UNCHANGED <<gPath, gHasParser, gFileOk, gIdx,
                   parseVars, scoreVars, detVars, facVars, scVars, reqVars, fltVars, upVars, fmtVars>>

\* views.py 317-320: the evidence is marked parsed and saved
SyncFinish ==
    /\ gPath = "sync" /\ gPc = "persist" /\ gIdx > Len(pEvents)
    /\ eObj' = mark_parsed(eObj)
    /\ eRow' = eObj'
    /\ gPc' = "done"
    /\ gOutcome' = "parsed"
    /\ UNCHANGED <<gPath, gHasParser, gFileOk, gIdx, gBatch, dbParsed,
                   parseVars, scoreVars, detVars, facVars, scVars, reqVars, fltVars, upVars, fmtVars>>

NextIngest ==
    \/ IngestStart \/ IngestParse \/ IngestParsed
    \/ TaskPersistEvent \/ SyncPersistEvent \/ TaskFinish \/ SyncFinish

SpecIngest == InitIngest /\ [][NextIngest]_vars

\* the routine ended on a failure of the parser lookup, of the parse or of
\* the persisting
IngestFailed ==
    gOutcome \in {"no_file", "no_parser", "parse_raised", "persist_raised"}

MaxParsed == 2      \* parsed events of the case

\* the ParsedEvent rows of the case, by id
ParsedSample(i) ==
    IF i % 3 = 1
    THEN [timestamp |-> TsDatetime(5), user |-> <<"a","d","m","i","n">>,
          host |-> <<"h","1">>, event_type |-> <<>>,
          raw_message |-> <<"x">>]
    ELSE IF i % 3 = 2
    THEN [timestamp |-> TsDatetime(14), user |-> <<"b","o","b">>,
          host |-> <<>>,
          event_type |-> <<"l","o","g","i","n"," ","f","a","i","l","e","d">>,
          raw_message |-> <<"F","a","i","l","e","d">>]
    ELSE [timestamp |-> TsDatetime(22), user |-> <<>>,
          host |-> <<"h","1">>,
          event_type |-> <<"p","o","w","e","r","s","h","e","l","l","_","e","x","e","c">>,
          raw_message |-> <<"m","i","m","i","k","a","t","z">>]

ParsedIds == 1..MaxParsed

ParsedSamples == {ParsedSample(i) : i \in ParsedIds}

\* score_events_task 108-114: the event data, the fields as they are
task_event_data(parsed_event) ==
    [timestamp   |-> parsed_event.timestamp,
     user        |-> parsed_event.user,
     event_type  |-> parsed_event.event_type,
     raw_message |-> parsed_event.raw_message]

\* tasks.py 191-202, views.py 369-380: the generated inference text, as
\* its wording and the three values formatted into it
inference_text(confidence, parsed_event) ==
    [wording |-> IF FGe(confidence, FLit(80)) THEN "Critical"
                 ELSE IF FGe(confidence, FLit(60)) THEN "High-risk"
                 ELSE IF FGe(confidence, FLit(30)) THEN "Suspicious"
                 ELSE "Normal",
     event_type |-> IF Falsy(parsed_event.event_type)
                    THEN <<"u","n","k","n","o","w","n">>
                    ELSE parsed_event.event_type,
     user |-> IF Falsy(parsed_event.user)
              THEN <<"u","n","k","n","o","w","n"," ","u","s","e","r">>
              ELSE parsed_event.user,
     host |-> IF Falsy(parsed_event.host)
              THEN <<"u","n","k","n","o","w","n"," ","h","o","s","t">>
              ELSE parsed_event.host]

\* models.py 147: inference_text is blank unless given
NoInference == [wording |-> "", event_type |-> <<>>, user |-> <<>>,
                host |-> <<>>]

\* score_events_task 117: scorer.score_event on the event data the task
\* builds, for each parsed event of the case
task_score ==
    [parsed_event \in ParsedSamples |->
        score_event(task_event_data(parsed_event))]

\* score_events_bulk_task 188, views.py 366: scorer.score_event on the
\* event data the bulk task and the synchronous path build
bulk_score ==
    [parsed_event \in ParsedSamples |->
        score_event(event_data_of(parsed_event))]

\* models.py 121-147: a ScoredEvent of the parsed event with the scorer's
\* result r; feature_scores is the empty dict unless given
ScoredEvent(id, r, given, text) ==
    [parsed_event |-> id, confidence |-> r.confidence,
     risk_label |-> r.risk_label,
     feature_scores |-> IF given THEN r.feature_scores ELSE <<>>,
     inference_text |-> text]

\* the ScoredEvent with the inference text generated for its confidence
with_inference(scored_event, parsed_event) ==
    [scored_event EXCEPT
        !.inference_text = inference_text(scored_event.confidence,
                                          parsed_event)]

\* score_events_task 127-132: the ScoredEvent the task creates
task_scored(id, parsed_event) ==
    ScoredEvent(id, task_score[parsed_event], TRUE, NoInference)

\* score_events_bulk_task 213-219: the ScoredEvent the bulk task creates
bulk_scored(id, parsed_event) ==
    with_inference(
        ScoredEvent(id, bulk_score[parsed_event], TRUE, NoInference),
        parsed_event)

\* views.py 383-388: the ScoredEvent the synchronous path creates;
\* feature_scores keeps its default, the empty dict (models.py 138)
sync_scored(id, parsed_event) ==
    with_inference(
        ScoredEvent(id, bulk_score[parsed_event], FALSE, NoInference),
        parsed_event)

\* parsed_event.scored / hasattr(parsed_event, 'scored'): the primary key
\* of the ScoredEvent of the parsed event, 0 when there is none
scored_pk(table, id) ==
    LET hit == {k \in 1..Len(table) : table[k].parsed_event = id}
    IN  IF hit = {} THEN 0 ELSE Min(hit)

\* the number of ScoredEvent rows of a parsed event
scored_count(table, id) ==
    Cardinality({k \in 1..Len(table) : table[k].parsed_event = id})

\* the variant without the unique index on parsed_event_id
insert_scored_no_unique(table, rows) == Ret(table \o rows)

\* models.py 125-129: OneToOneField makes parsed_event_id unique, so an
\* INSERT (create, bulk_create) of rows raises IntegrityError and writes
\* nothing when one of their parsed events has a row already
insert_scored(table, rows) ==
    IF \E k \in 1..Len(rows) :
          \/ scored_pk(table, rows[k].parsed_event) # 0
          \/ \E j \in 1..Len(rows) :
                j # k /\ rows[j].parsed_event = rows[k].parsed_event
    THEN Raised
    ELSE Ret(table \o rows)

\* the variant that never returns early
already_scored_never(pk, recalculate) == FALSE

\* score_events_task 104: hasattr(parsed_event, 'scored') and not recalculate
already_scored(pk, recalculate) == pk # 0 /\ ~recalculate

\* parsed_event.scored of an event without ScoredEvent
NoScoredEvent == [parsed_event |-> 0]

\* the rows present before the run, each made by an earlier run of the
\* task or of the synchronous path
RECURSIVE ExistingRows(_, _)
ExistingRows(maker, i) ==
    IF i > MaxParsed THEN <<>>
    ELSE (IF maker[i] = "task" THEN <<task_scored(i, ParsedSample(i))>>
          ELSE IF maker[i] = "sync" THEN <<sync_scored(i, ParsedSample(i))>>
          ELSE <<>>) \o ExistingRows(maker, i + 1)

InitScoring ==
    /\ IdleCascade
    /\ IdleFilter
    /\ IdleUpload
    /\ IdleFormat
    /\ IdleIngest
    /\ IdleDetect
    /\ IdleFactory
    /\ IdleScore
    /\ IdleParse
    /\ sParsed = [i \in ParsedIds |-> ParsedSample(i)]
    /\ \E maker \in [ParsedIds -> {"none", "task", "sync"}] :
          dbScored = ExistingRows(maker, 1)
    /\ \E recalculate \in BOOLEAN :
          sTask = [i \in ParsedIds |->
                      [pc |-> "queued", recalculate |-> recalculate,
                       scored |-> 0, scored_event |-> NoScoredEvent,
                       outcome |-> "none"]]
    /\ \E recalculate \in BOOLEAN :
          sBulk = [pc |-> "start", recalculate |-> recalculate,
                   todo |-> <<>>, idx |-> 1,
                   to_create |-> <<>>, to_update |-> <<>>]
    /\ sSync = [pc |-> "check", idx |-> 1]

\* score_events_task 101-105: the parsed event is read with its ScoredEvent
\* (the lookup is cached on the object), an event already scored is left
\* alone unless recalculate
TaskCheck(i) ==
    /\ sTask[i].pc = "queued"
    /\ LET pk == scored_pk(dbScored, i)
       IN  sTask' = [sTask EXCEPT ![i] =
                IF already_scored(pk, sTask[i].recalculate)
                THEN [@ EXCEPT !.pc = "done", !.outcome = "skipped"]
                ELSE [@ EXCEPT !.pc = "scoring", !.scored = pk,
                               !.scored_event = IF pk = 0 THEN NoScoredEvent
                                                ELSE dbScored[pk]]]
    /\ UNCHANGED <<sParsed, dbScored, sBulk, sSync,
                   ingVars, parseVars, scoreVars, detVars, facVars, reqVars, fltVars, upVars, fmtVars>>

\* score_events_task 120-133 on the table: the cached ScoredEvent (pk, the
\* object as it was read) is updated and saved with all its fields, or a
\* new one is created (IntegrityError is logged)
task_write(table, new, pk, scored_event) ==
    IF pk # 0
    THEN [table |-> [table EXCEPT ![pk] =
                        [scored_event EXCEPT
                            !.confidence = new.confidence,
                            !.risk_label = new.risk_label,
                            !.feature_scores = new.feature_scores]],
          outcome |-> "updated"]
    ELSE IF insert_scored(table, <<new>>).raised
    THEN [table |-> table, outcome |-> "conflict"]
    ELSE [table |-> insert_scored(table, <<new>>).value,
          outcome |-> "created"]

\* score_events_task 107-137: the event is scored, then the ScoredEvent is
\* written; every exception is logged
TaskWrite(i) ==
    /\ sTask[i].pc = "scoring"
    /\ LET w == task_write(dbScored, task_scored(i, sParsed[i]),
                           sTask[i].scored, sTask[i].scored_event)
       IN  /\ dbScored' = w.table
           /\ sTask' = [sTask EXCEPT ![i] =
                 [@ EXCEPT !.pc = "done", !.outcome = w.outcome]]
    /\ UNCHANGED <<sParsed, sBulk, sSync,
                   ingVars, parseVars, scoreVars, detVars, facVars, reqVars, fltVars, upVars, fmtVars>>

\* score_events_bulk_task 154-174: the query of the loop runs; without
\* recalculate it leaves out the events that have a ScoredEvent
BulkQuery ==
    /\ sBulk.pc = "start"
    /\ sBulk' = [sBulk EXCEPT
          !.pc = "loop",
          !.todo = SelectSeq([i \in ParsedIds |-> i],
                      LAMBDA i : sBulk.recalculate
                                   \/ scored_pk(dbScored, i) = 0)]
    /\ UNCHANGED <<sParsed, dbScored, sTask, sSync,
                   ingVars, parseVars, scoreVars, detVars, facVars, reqVars, fltVars, upVars, fmtVars>>

\* bulk_update of the four fields of every listed row
RECURSIVE bulk_update(_, _)
bulk_update(table, updates) ==
    IF Len(updates) = 0 THEN table
    ELSE bulk_update(
            [table EXCEPT ![updates[1].pk] =
                [@ EXCEPT !.confidence = updates[1].row.confidence,
                          !.risk_label = updates[1].row.risk_label,
                          !.feature_scores = updates[1].row.feature_scores,
                          !.inference_text = updates[1].row.inference_text]],
            Tail(updates))

\* score_events_bulk_task 204-233 on the table and the task's lists: the
\* scored event is listed for update (recalculate and the event has a
\* ScoredEvent, pk) or for creation, and a full list is written at once
bulk_event(bulk, table, new, pk) ==
    LET update == bulk.recalculate /\ pk # 0
        to_create == IF update THEN bulk.to_create
                     ELSE Append(bulk.to_create, new)
        to_update == IF update
                     THEN Append(bulk.to_update, [pk |-> pk, row |-> new])
                     ELSE bulk.to_update
        full == Len(to_create) >= batch_size
        ins == insert_scored(table, to_create)
        created == full /\ ~ins.raised
        updated == ~(full /\ ins.raised) /\ Len(to_update) >= batch_size
        after == IF created THEN ins.value ELSE table
    IN  [table |-> IF updated THEN bulk_update(after, to_update) ELSE after,
         bulk |-> [bulk EXCEPT
                     !.idx = @ + 1,
                     !.to_create = IF created THEN <<>> ELSE to_create,
                     !.to_update = IF updated THEN <<>> ELSE to_update]]

\* score_events_bulk_task 174-237: one event of the loop; an exception
\* skips to the next event
BulkEvent ==
    /\ sBulk.pc = "loop" /\ sBulk.idx <= Len(sBulk.todo)
    /\ LET id == sBulk.todo[sBulk.idx]
           r == bulk_event(sBulk, dbScored, bulk_scored(id, sParsed[id]),
                           scored_pk(dbScored, id))
       IN  dbScored' = r.table /\ sBulk' = r.bulk
    /\ UNCHANGED <<sParsed, sTask, sSync,
                   ingVars, parseVars, scoreVars, detVars, facVars, reqVars, fltVars, upVars, fmtVars>>

\* score_events_bulk_task 242-260: the remaining lists are written; an
\* IntegrityError of bulk_create ends the task with nothing written
BulkFlush ==
    /\ sBulk.pc = "loop" /\ sBulk.idx > Len(sBulk.todo)
    /\ LET ins == insert_scored(dbScored, sBulk.to_create)
       IN  /\ dbScored' = IF ins.raised THEN dbScored
                          ELSE bulk_update(ins.value, sBulk.to_update)
           /\ sBulk' = [sBulk EXCEPT !.pc = "done"]
    /\ UNCHANGED <<sParsed, sTask, sSync,
                   ingVars, parseVars, scoreVars, detVars, facVars, reqVars, fltVars, upVars, fmtVars>>

\* views.py 352-355: the next event is looked up in ScoredEvent; an event
\* that has one is passed over
SyncCheck ==
    /\ sSync.pc = "check" /\ sSync.idx <= MaxParsed
    /\ sSync' = IF scored_pk(dbScored, sSync.idx) # 0
                THEN [sSync EXCEPT !.idx = @ + 1]
                ELSE [sSync EXCEPT !.pc = "create"]
    /\ UNCHANGED <<sParsed, dbScored, sTask, sBulk,
                   ingVars, parseVars, scoreVars, detVars, facVars, reqVars, fltVars, upVars, fmtVars>>

\* views.py 357-395: the event is scored and its ScoredEvent created; an
\* exception is logged and the loop goes on
SyncCreate ==
    /\ sSync.pc = "create"
    /\ LET ins == insert_scored(dbScored,
                      <<sync_scored(sSync.idx, sParsed[sSync.idx])>>)
       IN  dbScored' = IF ins.raised THEN dbScored ELSE ins.value
    /\ sSync' = [sSync EXCEPT !.pc = "check", !.idx = @ + 1]
    /\ UNCHANGED <<sParsed, sTask, sBulk,
                   ingVars, parseVars, scoreVars, detVars, facVars, reqVars, fltVars, upVars, fmtVars>>

NextScoring ==
    \/ \E i \in ParsedIds : TaskCheck(i) \/ TaskWrite(i)
    \/ BulkQuery \/ BulkEvent \/ BulkFlush
    \/ SyncCheck \/ SyncCreate

SpecScoring == InitScoring /\ [][NextScoring]_vars

\* every scoring routine has finished
AllFinished ==
    /\ \A i \in ParsedIds : sTask[i].pc = "done"
    /\ sBulk.pc = "done"
    /\ sSync.pc = "check" /\ sSync.idx > MaxParsed

\* a step in which a routine run with recalculate = True writes
RecalculateStep ==
    \/ \E i \in ParsedIds :
          sTask[i].recalculate /\ sTask[i].pc = "scoring"
              /\ sTask'[i].pc = "done"
    \/ sBulk.recalculate /\ sBulk.pc = "loop"

\* C18: no step of the three scoring routines creates a second record for
\* a parsed event that has a ScoredEvent or changes its confidence or
\* risk_label, and its other fields (feature_scores among them) change
\* only in a step of a routine run with recalculate = True
C18_ScoresKeptUnlessRecalculate ==
    [][\A i \in ParsedIds :
          scored_pk(dbScored, i) # 0 =>
             LET old == dbScored[scored_pk(dbScored, i)]
                 new == dbScored'[scored_pk(dbScored, i)]
             IN  /\ scored_count(dbScored', i) = scored_count(dbScored, i)
                 /\ new.parsed_event = i
                 /\ new.confidence = old.confidence
                 /\ new.risk_label = old.risk_label
                 /\ (new # old => RecalculateStep)]_vars

\* a task without recalculate passed over a scored event, and the bulk
\* task with recalculate has rewritten a ScoredEvent
C18_Witness ==
    /\ \E i \in ParsedIds :
          ~sTask[i].recalculate /\ sTask[i].outcome = "skipped"
    /\ sBulk.pc = "done" /\ sBulk.recalculate /\ Len(sBulk.to_update) > 0
    /\ \E k \in 1..Len(sBulk.to_update) :
          dbScored[sBulk.to_update[k].pk].inference_text
              = sBulk.to_update[k].row.inference_text

\* C19: under every interleaving of the per-event tasks, the bulk task and
\* the synchronous path no parsed event has more than one ScoredEvent, and
\* when all of them have finished every parsed event has exactly one
C19_OneScoredEventEach ==
    /\ \A i \in ParsedIds : scored_count(dbScored, i) <= 1
    /\ AllFinished => \A i \in ParsedIds : scored_count(dbScored, i) = 1

\* all routines have finished and a create lost the race for its event
C19_Witness ==
    /\ AllFinished
    /\ \E i \in ParsedIds : sTask[i].outcome = "conflict"
    /\ \A i \in ParsedIds : scored_count(dbScored, i) = 1

(***************************************************************************)
(* Reuse of one AccessLogParser instance: parse is called on a file, then  *)
(* again on another file                                                   *)
(***************************************************************************)
MaxReuse == 1       \* further parse calls on the same instance

InitReuse ==
    /\ IdleCascade
    /\ IdleFilter
    /\ IdleUpload
    /\ IdleFormat
    /\ IdleIngest
    /\ IdleScoring
    /\ IdleDetect
    /\ IdleFactory
    /\ IdleScore
    /\ pKind = "access"
    /\ \E ls \in SeqsUpTo(AccessLineSamples, MaxLines) :
          pFile = [header |-> <<>>, lines |-> ls]
    /\ pHasPandas = FALSE
    /\ pStreaming \in BOOLEAN
    /\ pPc = "start"
    /\ pIdx = 1
    /\ pEvents = <<>>
    /\ pSkipped = <<>>
    /\ pDetected = 0
    /\ pTsFormat = 0
    /\ pRun = 0

\* parser.parse(path) is called again on the instance: the loop state is
\* new (lines 125, 132), the attributes set by _detect_format stay
ParseAgain ==
    /\ pKind = "access" /\ pPc \in {"returned", "raised"} /\ pRun < MaxReuse
    /\ \E ls \in SeqsUpTo(AccessLineSamples, MaxLines) :
          pFile' = [header |-> <<>>, lines |-> ls]
    /\ pStreaming' \in BOOLEAN
    /\ pPc' = "start"
    /\ pIdx' = 1
    /\ pEvents' = <<>>
    /\ pSkipped' = <<>>
    /\ pRun' = pRun + 1
    /\ UNCHANGED <<pKind, pHasPandas, pDetected, pTsFormat,
                   scoreVars, detVars, facVars, ingVars, scVars, reqVars, fltVars, upVars, fmtVars>>

NextReuse == AccessDetectFormat \/ AccessLine \/ ParseReturn \/ ParseAgain

SpecReuse == InitReuse /\ [][NextReuse]_vars

\* C20: whatever the instance parsed before, a parse call ends as the call
\* of a fresh parser on the same file ends: it raises when that raises and
\* returns the same events
C20_ParseStateIsLocal ==
    pPc \in {"returned", "raised"} =>
        LET alone == parse(FreshSelf, pFile.lines)
        IN  /\ alone.raised = (pPc = "raised")
            /\ ~alone.raised => pEvents = alone.events

(***************************************************************************)
(* Memory held by the streaming path                                       *)
(***************************************************************************)
\* AccessLogParser.parse 121-123: list(self.parse_streaming(file_path))
\* keeps every event the generator has yielded until parse returns the list
held_events == IF pKind = "access" /\ pStreaming THEN Len(pEvents) ELSE 0

\* what a consumer of the generator holds when it takes the events one at
\* a time
OneAtATime == 1

\* C21: on the streaming path the number of events held in memory does not
\* grow with the lines of the file: it never exceeds the one event in hand
C21_StreamingHoldsOneEvent == held_events <= OneAtATime

(***************************************************************************)
(* Classifier specification: _determine_event_type on any sampled request  *)
(***************************************************************************)
\* request methods seen in access logs ('' when the grammar has none)
MethodSamples ==
    { <<>>, <<"G","E","T">>, <<"P","O","S","T">>, <<"D","E","L","E","T","E">> }

\* request paths: plain, static file, attack payloads, login, admin, user
PathSamples ==
    { <<>>,
      <<"/","a","p","i","/","i","t","e","m","s">>,
      <<"/","i","n","d","e","x",".","h","t","m","l">>,
      <<"/","s","e","a","r","c","h","?","q","=","<","s","c","r","i","p","t",">","a","l","e","r","t","(","1",")">>,
      <<"/",".",".","/","e","t","c","/","p","a","s","s","w","d">>,
      <<"/","i","t","e","m","?","i","d","=","1","'","-","-">>,
      <<"/","l","o","g","i","n">>,
      <<"/","a","d","m","i","n">>,
      <<"/","u","s","e","r","/","7">>,
      <<"/","x",".","p","h","p","?","c","m","d","=","l","s">> }

\* response statuses (0 when the grammar has none)
StatusSamples == {0, 200, 401, 403, 404, 500}

\* user agents: none, a browser, a scanner
UserAgentSamples ==
    { <<>>, <<"M","o","z","i","l","l","a","/","5",".","0">>, <<"s","q","l","m","a","p","/","1",".","7">> }

\* no label yet: the request has not been classified
NoType == <<>>

InitCascade ==
    /\ IdleIngest
    /\ IdleScoring
    /\ IdleDetect
    /\ IdleFactory
    /\ IdleScore
    /\ IdleParse
    /\ IdleFilter
    /\ IdleUpload
    /\ IdleFormat
    /\ cReq \in [method : MethodSamples, path : PathSamples,
                 status : StatusSamples, user_agent : UserAgentSamples]
    /\ cType = NoType

\* the call of _determine_event_type on the request
Classify ==
    /\ cType = NoType
    /\ cType' = _determine_event_type(cReq.method, cReq.path, cReq.status,
                                      cReq.user_agent)
    /\ UNCHANGED <<cReq, detVars, facVars, scoreVars, parseVars, ingVars,
                   scVars, fltVars, upVars, fmtVars>>

SpecCascade == InitCascade /\ [][Classify]_vars

\* a request has been classified
Classified == cType # NoType

\* index of the first entry of _attack_patterns_compiled, from k on, whose
\* pattern is found in path (0 when there is none)
RECURSIVE first_signature(_, _)
first_signature(path, k) ==
    IF k > Len(_attack_patterns_compiled) THEN 0
    ELSE IF SearchCI(_attack_patterns_compiled[k].lits,
                     _attack_patterns_compiled[k].gaps, path) THEN k
    ELSE first_signature(path, k + 1)

\* C22: a request whose path matches an attack signature is labelled with
\* the first matching signature of the table, whatever its method, status
\* and user agent are
C22_AttackSignatureFirst ==
    Classified /\ first_signature(cReq.path, 1) # 0 =>
        cType = _attack_patterns_compiled[first_signature(cReq.path, 1)].label

\* a path carrying a script tag, answered 404 to a scanner's DELETE, is
\* labelled XSS_ATTEMPT
C22_Witness ==
    /\ cReq.path = <<"/","s","e","a","r","c","h","?","q","=","<","s","c","r","i","p","t",">","a","l","e","r","t","(","1",")">>
    /\ cReq.status = 404
    /\ cReq.method = <<"D","E","L","E","T","E">>
    /\ cReq.user_agent = <<"s","q","l","m","a","p","/","1",".","7">>
    /\ cType = <<"X","S","S","_","A","T","T","E","M","P","T">>

\* C23: a request with a method that no attack signature, scanner or login
\* rule claims and that was answered with a status of 500 or more is labelled
\* SERVER_ERROR, whatever the method is
C23_ServerErrorBeforeMethod ==
    /\ Classified
    /\ cReq.method # <<>>
    /\ first_signature(cReq.path, 1) = 0
    /\ ~SearchAnyCI(_scanner_pattern, cReq.user_agent)
    /\ ~SearchAnyCI(_auth_paths_pattern, cReq.path)
    /\ cReq.status >= 500
    => cType = <<"S","E","R","V","E","R","_","E","R","R","O","R">>

(***************************************************************************)
(* Format detection specification: _detect_format and _parse_line on logs  *)
(* longer than the sample                                                  *)
(***************************************************************************)
MaxHead == 10       \* lines of the first kind in a log
MaxTail == 6        \* lines of the second kind that follow them

\* kinds of line, with the PATTERNS entries whose match() accepts them and
\* the timestamp group they capture: combined format, space-delimited,
\* JSON-like, free text, blank, comment
FormatLineKinds ==
    << [text |-> <<"1",".","2",".","3",".","4"," ","-"," ","-"," ","[","t","]"," ","\"","G","E","T"," ","/"," ","H","\""," ","2","0","0"," ","5">>,
        grammars |-> {1, 2, 4}, gts |-> <<"t">>],
       [text |-> <<"1",".","2",".","3",".","4"," ","x"," ","[","t","]"," ","\"","G","E","T"," ","/","\""," ","2","0","0">>,
        grammars |-> {4}, gts |-> <<"t">>],
       [text |-> <<"{","\"","i","p","\"",":","\"","1",".","2",".","3",".","4","\"",",","\"","t","i","m","e","\"",":","\"","t","\"",",","\"","s","t","a","t","u","s","\"",":","2","0","0","}">>,
        grammars |-> {5}, gts |-> <<"t">>],
       [text |-> <<"h","e","l","l","o">>,
        grammars |-> {}, gts |-> <<>>],
       [text |-> <<>>,
        grammars |-> {}, gts |-> <<>>],
       [text |-> <<"#","c">>,
        grammars |-> {}, gts |-> <<>>] >>

\* n lines of kind k
Repeat(k, n) == [i \in 1..n |-> FormatLineKinds[k]]

\* the logs: some lines of one kind followed by some lines of another
FormatFiles ==
    { Repeat(a, i) \o Repeat(b, j) :
        a \in 1..Len(FormatLineKinds), b \in 1..Len(FormatLineKinds),
        i \in 0..MaxHead, j \in 0..MaxTail }

InitFormat ==
    /\ IdleIngest
    /\ IdleScoring
    /\ IdleDetect
    /\ IdleFactory
    /\ IdleScore
    /\ IdleParse
    /\ IdleFilter
    /\ IdleUpload
    /\ IdleCascade
    /\ mFile \in FormatFiles
    /\ mSelf = FreshSelf
    /\ mPc = "start"
    /\ mIdx = 1
    /\ mTried = <<>>

\* parse 127-129: _detect_format on the opened file, then seek(0)
FormatDetect ==
    /\ mPc = "start"
    /\ LET r == _detect_format(mSelf, mFile)
       IN  /\ mSelf' = r.value
           /\ mPc' = IF r.raised THEN "raised" ELSE "loop"
    /\ UNCHANGED <<mFile, mIdx, mTried, detVars, facVars, scoreVars, parseVars,
                   ingVars, scVars, reqVars, fltVars, upVars>>

\* a line the loop does not hand to _parse_line (blank or comment)
NotParsed == -1

\* parse 131-137: one iteration of the loop, up to the match _parse_line
\* settles on
FormatLine ==
    /\ mPc = "loop" /\ mIdx <= Len(mFile)
    /\ LET line == mFile[mIdx]
       IN  mTried' = Append(mTried,
                            IF Len(line.text) = 0 \/ line.text[1] = "#"
                            THEN NotParsed ELSE first_match(mSelf, line))
    /\ mIdx' = mIdx + 1
    /\ UNCHANGED <<mFile, mSelf, mPc, detVars, facVars, scoreVars, parseVars,
                   ingVars, scVars, reqVars, fltVars, upVars>>

NextFormat == FormatDetect \/ FormatLine

SpecFormat == InitFormat /\ [][NextFormat]_vars

\* the lines among the first ten of the log that are not comments
first_ten_sample ==
    LET n == IF Len(mFile) < 10 THEN Len(mFile) ELSE 10
    IN  {i \in 1..n : ~(Len(mFile[i].text) > 0 /\ mFile[i].text[1] = "#")}

\* grammar p matches at least half of the sampled lines
reaches_half(p) ==
    /\ first_ten_sample # {}
    /\ 2 * Cardinality({i \in first_ten_sample : p \in mFile[i].grammars})
          >= Cardinality(first_ten_sample)

\* C24: the remembered grammar is the first one, in list order, matching at
\* least half of the lines sampled from the first ten (none when no grammar
\* does); each parsed line is then matched by the remembered grammar when it
\* matches the line, else by the first other grammar in list order that
\* does, and goes to flexible extraction only when no grammar matches
C24_DetectedGrammarFirst ==
    mPc = "loop" =>
        LET d == mSelf._detected_pattern
        IN  /\ d = 0 <=> ~\E p \in 1..NumPatterns : reaches_half(p)
            /\ d # 0 => /\ reaches_half(d)
                        /\ \A p \in 1..(d - 1) : ~reaches_half(p)
            /\ \A i \in 1..Len(mTried) :
                  LET g == mFile[i].grammars
                  IN  mTried[i] # NotParsed =>
                         /\ d \in g => mTried[i] = d
                         /\ d \notin g /\ g # {} => mTried[i] = Min(g)
                         /\ g = {} => mTried[i] = 0

\* a log of more than ten lines whose first ten make the space-delimited
\* grammar the remembered one, fully parsed: a later combined-format line,
\* which grammar 1 also matches, was matched by the remembered grammar 4
C24_Witness ==
    /\ mPc = "loop" /\ mIdx > Len(mFile) /\ Len(mFile) > 10
    /\ mSelf._detected_pattern = 4
    /\ \E i \in 11..Len(mFile) : 1 \in mFile[i].grammars /\ mTried[i] = 4

(***************************************************************************)
(* Line numbering specification: one parse call on files that may hold     *)
(* empty lines, CSV files included                                         *)
(***************************************************************************)
InitLines ==
    /\ IdleCascade
    /\ IdleFilter
    /\ IdleUpload
    /\ IdleFormat
    /\ IdleIngest
    /\ IdleScoring
    /\ IdleDetect
    /\ IdleFactory
    /\ pKind \in ParserKinds
    /\ \E ls \in SeqsUpTo(LineSamples(pKind)
                            \cup (IF pKind = "csv" THEN {BlankRow} ELSE {}),
                          MaxLines) :
          pFile = [header |-> IF pKind = "csv" THEN CsvHeader ELSE <<>>,
                   lines |-> ls]
    /\ pHasPandas \in (IF pKind = "csv" THEN BOOLEAN ELSE {FALSE})
    /\ pHasPandas => \A i \in 1..Len(pFile.lines) :
                        IsBlankRow(pFile.lines[i]) \/ ~IsShort(pFile.lines[i])
    /\ pStreaming \in (IF pKind = "access" THEN BOOLEAN ELSE {FALSE})
    /\ pPc = IF pKind = "syslog" THEN "loop" ELSE "start"
    /\ pIdx = 1
    /\ pEvents = <<>>
    /\ pSkipped = <<>>
    /\ pDetected = 0
    /\ pTsFormat = 0
    /\ pRun = 0
    /\ event = [event_type |-> <<>>, raw_message |-> <<>>, user |-> <<>>,
                timestamp |-> TsNone]
    /\ result = NoResult
    /\ first = NoResult
    /\ calls = 0
    /\ now \in ClockHours
    /\ firstNow = now

SpecLines == InitLines /\ [][NextParse]_vars

\* the 1-based position in the file of the line the loop is at: the lines
\* of a CSV file follow its header line
file_position == IF pKind = "csv" THEN pIdx + 1 ELSE pIdx

\* C26: the event a parser appends for a line carries, as line_number, the
\* 1-based position of that line in the file
C26_LineNumberIsFilePosition ==
    [][Len(pEvents') > Len(pEvents) =>
          pEvents'[Len(pEvents')].line_number = file_position]_vars

(***************************************************************************)
(* Threshold filter specification: FilterViewSet.apply requests on the     *)
(* scored events of one case                                               *)
(***************************************************************************)
MaxScored == 2      \* scored events of the case
MaxApply == 2       \* apply requests

\* a float that is a number, and the float that is not
Num(v) == [nan |-> FALSE, v |-> v]
NaN == [nan |-> TRUE, v |-> F(0, 0)]

\* request.data.get('threshold', 0.7) as sent: numbers, numeric text, the
\* text 'nan', text that is no number, nothing
ThresholdSamples ==
    { <<"0",".","3">>, <<"0",".","7">>, <<"1">>, <<"n","a","n">>,
      <<"a","b","c">>, PyNone }

\* float(request.data.get('threshold', 0.7)), views.py line 587
float_threshold(x) ==
    IF x = PyNone THEN Ret(Num(FLit(70)))
    ELSE IF x = <<"0",".","3">> THEN Ret(Num(FLit(30)))
    ELSE IF x = <<"0",".","7">> THEN Ret(Num(FLit(70)))
    ELSE IF x = <<"1">> THEN Ret(Num(FLit(100)))
    ELSE IF x = <<"n","a","n">> THEN Ret(NaN)
    ELSE Raised

\* confidence < threshold and confidence >= threshold on floats: both are
\* False when the threshold is not a number
lt_threshold(confidence, threshold) ==
    ~threshold.nan /\ FLt(confidence, threshold.v)
ge_threshold(confidence, threshold) ==
    ~threshold.nan /\ FGe(confidence, threshold.v)

\* MLScorer.apply_threshold
apply_threshold(confidence, threshold) == ge_threshold(confidence, threshold)

\* confidences the scorer stores: 0.3, 0.1 + 0.2, 0.7
ConfidenceSamples == {FLit(30), FAdd(FLit(10), FLit(20)), FLit(70)}

\* ScoredEvent rows: archived_at is 0 for None, else the time of the request
\* that archived the row (1 for ScoredEventViewSet.archive before the first
\* apply request, r + 1 for the r-th apply request)
ScoredRows ==
    [confidence : ConfidenceSamples, is_archived : {FALSE}, archived_at : {0}]
    \cup
    [confidence : ConfidenceSamples, is_archived : {TRUE}, archived_at : {1}]

\* ScoredEvent.archive and ScoredEvent.restore at time t
archive(scored, t) == [scored EXCEPT !.is_archived = TRUE, !.archived_at = t]
restore(scored) == [scored EXCEPT !.is_archived = FALSE, !.archived_at = 0]

InitFilter ==
    /\ IdleIngest
    /\ IdleScoring
    /\ IdleDetect
    /\ IdleFactory
    /\ IdleScore
    /\ IdleParse
    /\ IdleUpload
    /\ IdleCascade
    /\ IdleFormat
    /\ aRows \in SeqsUpTo(ScoredRows, MaxScored)
    /\ aThreshold = NaN
    /\ aEvents = <<>>
    /\ aIdx = 1
    /\ aPc = "idle"
    /\ aRun = 0
    /\ aBefore = [rows |-> aRows, repeated |-> FALSE]

\* apply 586-595: read the threshold and evaluate the queryset of the case;
\* a threshold that float() rejects ends the request with an error
FilterApply ==
    /\ aPc \in {"idle", "done", "failed"} /\ aRun < MaxApply
    /\ \E x \in ThresholdSamples :
          LET f == float_threshold(x)
          IN  IF f.raised
              THEN /\ aPc' = "failed"
                   /\ aRun' = aRun + 1
                   /\ UNCHANGED <<aThreshold, aEvents, aIdx, aBefore>>
              ELSE /\ aPc' = "loop"
                   /\ aThreshold' = f.value
                   /\ aEvents' = aRows
                   /\ aIdx' = 1
                   /\ aBefore' = [rows |-> aRows,
                                  repeated |-> aPc = "done"
                                               /\ f.value = aThreshold]
                   /\ aRun' = aRun
    /\ UNCHANGED <<aRows, detVars, facVars, scoreVars, parseVars, ingVars,
                   scVars, reqVars, upVars, fmtVars>>

\* apply 598-603: one iteration of the loop; archive() and restore() save
\* the object
FilterEvent ==
    /\ aPc = "loop" /\ aIdx <= Len(aEvents)
    /\ LET ev == aEvents[aIdx]
       IN  aRows' = IF lt_threshold(ev.confidence, aThreshold)
                       /\ ~ev.is_archived
                    THEN [aRows EXCEPT ![aIdx] = archive(ev, aRun + 2)]
                    ELSE IF ge_threshold(ev.confidence, aThreshold)
                            /\ ev.is_archived
                    THEN [aRows EXCEPT ![aIdx] = restore(ev)]
                    ELSE aRows
    /\ aIdx' = aIdx + 1
    /\ UNCHANGED <<aThreshold, aEvents, aPc, aRun, aBefore, detVars, facVars,
                   scoreVars, parseVars, ingVars, scVars, reqVars, upVars,
                   fmtVars>>

\* apply 605-609: the response
FilterDone ==
    /\ aPc = "loop" /\ aIdx > Len(aEvents)
    /\ aPc' = "done"
    /\ aRun' = aRun + 1
    /\ UNCHANGED <<aRows, aThreshold, aEvents, aIdx, aBefore, detVars, facVars,
                   scoreVars, parseVars, ingVars, scVars, reqVars, upVars,
                   fmtVars>>

NextFilter == FilterApply \/ FilterEvent \/ FilterDone

SpecFilter == InitFilter /\ [][NextFilter]_vars

\* C25: when an apply request has completed, each scored event of the case
\* is archived exactly when apply_threshold(confidence, threshold) is False,
\* and a request that repeats the threshold of the request before it has
\* changed no event
C25_ArchivedIffBelowThreshold ==
    aPc = "done" =>
        /\ \A i \in 1..Len(aRows) :
              aRows[i].is_archived
                 <=> ~apply_threshold(aRows[i].confidence, aThreshold)
        /\ aBefore.repeated => aRows = aBefore.rows

\* the database refused a write of the run
DatabaseRefused == eRow.parse_error = str_exc(DatabaseLocked)

\* C27: when parse_evidence_file_task has ended after the parser returned
\* its events, and the database refused no write, every returned event has
\* been written once, in parser order, and parsed_events holds nothing
C27_ChunksPersistEveryEvent ==
    gPath = "task" /\ gPc = "done" /\ pPc = "returned" /\ ~DatabaseRefused =>
        /\ Len(dbParsed) = Len(pEvents)
        /\ \A i \in 1..Len(pEvents) :
              /\ dbParsed[i].line_number = pEvents[i].line_number
              /\ dbParsed[i].raw_message = pEvents[i].raw_message
        /\ gBatch = <<>>

(***************************************************************************)
(* Upload specification: perform_create with the parse task its save       *)
(* queues, then reparse requests, on one evidence file                     *)
(***************************************************************************)
MaxUploadLines == 1     \* lines (data rows) of the uploaded file
MaxReparse == 1         \* reparse requests

\* the EvidenceFile row serializer.save() inserts (models.py 52, 59-61)
NewEvidence ==
    [log_type |-> T_UNKNOWN, is_parsed |-> FALSE, parse_error |-> ""]

\* ParserFactory.get_parser(log_type) returns a parser
has_parser(log_type) == log_type \in DOMAIN InitialParsers

\* the tag detect_log_type gives a file of the kind under a name with the
\* kind's extension
kind_tag == IF pKind = "csv" THEN T_CSV ELSE T_SYSLOG

\* parser.parse(path) on the uploaded file: both paths parse the same file
upload_events == EventsFrom(1)

InitUpload ==
    /\ IdleCascade
    /\ IdleFilter
    /\ IdleFormat
    /\ IdleScoring
    /\ IdleDetect
    /\ IdleFactory
    /\ IdleScore
    /\ pKind \in RegisteredKinds
    /\ \E ls \in SeqsUpTo({l \in LineSamples(pKind) :
                               pKind = "csv" => ~l.huge /\ ~IsShort(l)},
                          MaxUploadLines) :
          pFile = [header |-> IF pKind = "csv" THEN CsvHeader ELSE <<>>,
                   lines |-> ls]
    /\ pHasPandas = FALSE
    /\ pStreaming = FALSE
    /\ pPc = "idle"
    /\ pIdx = 1
    /\ pEvents = <<>>
    /\ pSkipped = <<>>
    /\ pDetected = 0
    /\ pTsFormat = 0
    /\ pRun = 0
    /\ eRow = NewEvidence
    /\ eObj = NewEvidence
    /\ gPath = "none"
    /\ gPc = "idle"
    /\ gHasParser = FALSE
    /\ gFileOk = TRUE
    /\ gIdx = 1
    /\ gBatch = <<>>
    /\ gOutcome = "none"
    /\ dbParsed = <<>>
    /\ uPc = "create"
    /\ uMode = "upload"
    /\ uView = NewEvidence
    /\ uSync = NewEvidence
    /\ uIdx = 1
    /\ uReparses = 0
    /\ tPc = "none"
    /\ tObj = NewEvidence
    /\ tIdx = 1
    /\ tBatch = <<>>
    /\ uEvents = <<>>
    /\ tEvents = <<>>

\* what the upload actions leave alone
UploadFrame ==
    UNCHANGED <<detVars, facVars, scoreVars, parseVars, scVars, reqVars,
                fltVars, fmtVars, eObj, gPath, gPc, gHasParser, gFileOk, gIdx,
                gBatch, gOutcome>>

\* perform_create 242-248: serializer.save() inserts the row; its post_save
\* signal (signals.py 10-21) queues parse_evidence_file_task unless the
\* broker refuses
UploadCreate ==
    /\ uPc = "create"
    /\ uView' = NewEvidence
    /\ eRow' = NewEvidence
    /\ \E queued \in BOOLEAN : tPc' = IF queued THEN "queued" ELSE "none"
    /\ uPc' = "detect"
    /\ UNCHANGED <<uMode, uSync, uIdx, uReparses, tObj, tIdx, tBatch, dbParsed,
                   uEvents, tEvents>>
    /\ UploadFrame

\* perform_create 250-260: the log type is detected and the evidence object
\* of the view is saved
UploadDetect ==
    /\ uPc = "detect"
    /\ \E tag \in {kind_tag, T_UNKNOWN} :
          uView' = [uView EXCEPT !.log_type = tag]
    /\ eRow' = uView'
    /\ uPc' = "sync_load"
    /\ UNCHANGED <<uMode, uSync, uIdx, uReparses, tPc, tObj, tIdx, tBatch,
                   dbParsed, uEvents, tEvents>>
    /\ UploadFrame

\* _parse_evidence_sync 286-309: the evidence is read, the parser obtained
\* and the file parsed; without a parser the message is saved
SyncLoad ==
    /\ uPc = "sync_load"
    /\ IF has_parser(eRow.log_type)
       THEN /\ uSync' = eRow
            /\ uEvents' = upload_events
            /\ uPc' = "sync_persist"
            /\ UNCHANGED eRow
       ELSE /\ uSync' = no_parser(eRow)
            /\ eRow' = uSync'
            /\ uPc' = "done"
            /\ UNCHANGED uEvents
    /\ uIdx' = 1
    /\ UNCHANGED <<uMode, uView, uReparses, tPc, tObj, tIdx, tBatch, dbParsed,
                   tEvents>>
    /\ UploadFrame

\* _parse_evidence_sync 311-315 and 332-339: one ParsedEvent.objects.create;
\* an exception ends the routine in its except clause
SyncCreateEvent ==
    /\ uPc = "sync_persist" /\ uIdx <= Len(uEvents)
    /\ LET r == ParsedEvent(uEvents[uIdx])
       IN  IF r.raised
           THEN /\ eRow' = handle_exception(eRow, r.value)
                /\ uSync' = eRow'
                /\ uPc' = "done"
                /\ UNCHANGED <<uIdx, dbParsed>>
           ELSE /\ dbParsed' = Append(dbParsed, r.value)
                /\ uIdx' = uIdx + 1
                /\ UNCHANGED <<eRow, uSync, uPc>>
    /\ UNCHANGED <<uMode, uView, uReparses, tPc, tObj, tIdx, tBatch, uEvents,
                   tEvents>>
    /\ UploadFrame

\* _parse_evidence_sync 317-329: the evidence object is marked parsed and
\* saved; a failure of the scoring that follows is logged only
SyncMark ==
    /\ uPc = "sync_persist" /\ uIdx > Len(uEvents)
    /\ uSync' = mark_parsed(uSync)
    /\ eRow' = uSync'
    /\ uPc' = "done"
    /\ UNCHANGED <<uMode, uView, uIdx, uReparses, tPc, tObj, tIdx, tBatch,
                   dbParsed, uEvents, tEvents>>
    /\ UploadFrame

\* reparse 439-447: the parsed events are deleted, the evidence is reset
\* and saved, then _parse_evidence_sync runs
Reparse ==
    /\ uPc = "done" /\ uReparses < MaxReparse
    /\ dbParsed' = <<>>
    /\ uView' = [eRow EXCEPT !.is_parsed = FALSE, !.parse_error = ""]
    /\ eRow' = uView'
    /\ uMode' = "reparse"
    /\ uReparses' = uReparses + 1
    /\ uPc' = "sync_load"
    /\ UNCHANGED <<uSync, uIdx, tPc, tObj, tIdx, tBatch, uEvents, tEvents>>
    /\ UploadFrame

\* parse_evidence_file_task 25: the worker starts the task and reads the
\* evidence
TaskLoad ==
    /\ tPc = "queued"
    /\ tObj' = eRow
    /\ tPc' = "loaded"
    /\ UNCHANGED <<uPc, uMode, uView, uSync, uIdx, uReparses, tIdx, tBatch,
                   eRow, dbParsed, uEvents, tEvents>>
    /\ UploadFrame

\* parse_evidence_file_task 28-38: without a parser the message is set on
\* the object read at line 25 and that object is saved; with one the file
\* is parsed
TaskGetParser ==
    /\ tPc = "loaded"
    /\ IF has_parser(tObj.log_type)
       THEN /\ tEvents' = upload_events
            /\ tPc' = "persist"
            /\ UNCHANGED <<tObj, eRow>>
       ELSE /\ tObj' = no_parser(tObj)
            /\ eRow' = tObj'
            /\ tPc' = "done"
            /\ UNCHANGED tEvents
    /\ tIdx' = 1
    /\ tBatch' = <<>>
    /\ UNCHANGED <<uPc, uMode, uView, uSync, uIdx, uReparses, dbParsed,
                   uEvents>>
    /\ UploadFrame

\* parse_evidence_file_task 46-60 and 80-85: one event is constructed and
\* appended to parsed_events, a full batch is written; an exception ends
\* the task in its except clause, which reads the evidence again
TaskEvent ==
    /\ tPc = "persist" /\ tIdx <= Len(tEvents)
    /\ LET r == ParsedEvent(with_extra_data(tEvents[tIdx]))
       IN  IF r.raised
           THEN /\ eRow' = handle_exception(eRow, r.value)
                /\ tObj' = eRow'
                /\ tPc' = "done"
                /\ UNCHANGED <<tIdx, tBatch, dbParsed>>
           ELSE /\ IF Len(tBatch) + 1 < batch_size
                   THEN tBatch' = Append(tBatch, r.value)
                        /\ UNCHANGED dbParsed
                   ELSE dbParsed' = dbParsed \o Append(tBatch, r.value)
                        /\ tBatch' = <<>>
                /\ tIdx' = tIdx + 1
                /\ UNCHANGED <<eRow, tObj, tPc>>
    /\ UNCHANGED <<uPc, uMode, uView, uSync, uIdx, uReparses, uEvents, tEvents>>
    /\ UploadFrame

\* parse_evidence_file_task 62-78 and 80-85: the remaining events are
\* written, the object read at line 25 is marked parsed and saved, and the
\* bulk scoring task is queued; when the broker refuses, the except clause
\* reads the evidence again and saves the message
TaskEnd ==
    /\ tPc = "persist" /\ tIdx > Len(tEvents)
    /\ dbParsed' = dbParsed \o tBatch
    /\ tBatch' = <<>>
    /\ \E queued \in BOOLEAN :
          IF queued
          THEN tObj' = mark_parsed(tObj) /\ eRow' = tObj'
          ELSE /\ eRow' = handle_exception(mark_parsed(tObj), BrokerDown)
               /\ tObj' = eRow'
    /\ tPc' = "done"
    /\ UNCHANGED <<uPc, uMode, uView, uSync, uIdx, uReparses, tIdx, uEvents,
                   tEvents>>
    /\ UploadFrame

NextUpload ==
    \/ UploadCreate \/ UploadDetect \/ SyncLoad \/ SyncCreateEvent \/ SyncMark
    \/ Reparse
    \/ TaskLoad \/ TaskGetParser \/ TaskEvent \/ TaskEnd

SpecUpload == InitUpload /\ [][NextUpload]_vars

\* the view has answered and the queued task, if any, has ended
UploadSettled == uPc = "done" /\ tPc \in {"none", "done"}

\* C28: when the upload and what it queued have finished (before any
\* reparse request), and a parser exists for the detected log type, the file
\* has one ParsedEvent row for each event the parser returns, in parser order
C28_OneRowPerEvent ==
    UploadSettled /\ uMode = "upload" /\ has_parser(uView.log_type) =>
        /\ Len(dbParsed) = Len(uEvents)
        /\ \A i \in 1..Len(uEvents) :
              dbParsed[i].line_number = uEvents[i].line_number

\* C29: is_parsed goes from True to False in a reparse request only, and a
\* stored log_type other than the initial one is never replaced
C29_NoLostUpdate ==
    [][/\ (eRow.is_parsed /\ ~eRow'.is_parsed) => uReparses' = uReparses + 1
       /\ eRow.log_type # NewEvidence.log_type
             => eRow'.log_type = eRow.log_type]_vars

\* C30: an evidence record that is marked parsed carries no parse error
C30_ParsedHasNoError == eRow.is_parsed => eRow.parse_error = ""

====
